---- MODULE Spec2Model ----
(***************************************************************************)
(* Model of the session / authorization layer of axum-restful-api:         *)
(*   - the action-token lifecycle (sign-up, verify, resend-activation,     *)
(*     forgot-password, reset-password) over the users and                 *)
(*     user_action_tokens tables;                                          *)
(*   - the fixed-window rate limiter over the Redis counter store;         *)
(*   - the request pipeline rate_limit -> auth_token -> check_permission   *)
(*     -> handler of the protected routes.                                 *)
(* Every handler is cut at its store calls (its .await points): one action *)
(* per store call, with everything the code does around it.                *)
(* An Option<T> is a set: {} is None / NULL, {v} is Some(v).               *)
(***************************************************************************)
EXTENDS Integers, Sequences, FiniteSets, TLC

VARIABLES
    users,      \* table users: sequence of rows, a row's id is its index
    tokens,     \* table user_action_tokens: sequence of rows, id = index
    now,        \* the clock, in hours (Utc::now() and SQL Now())
    ticks,      \* how many times the clock has advanced
    nextTok,    \* the next value generate_random_string returns
    req,        \* the in-flight auth requests, one record per task
    resp,       \* the response sent last: the handler it came from and
                \* its status and message
    redis,      \* the counter store: per key its count and its time to live
    sec,        \* the clock of the middleware, in seconds
    role_permissions,   \* tables permissions / role_permissions, per role
    http,       \* the requests in flight in the middleware stack
    hresp,      \* the response the middleware stack sent last
    admitted,   \* per counter key, how many requests rate_limit passed on
                \* to next.run, by the seconds since it did
    minted,     \* the call of create_token and what it returned
    decoded     \* the last call of parse_token and what it returned

tokVars == <<users, tokens, now, ticks, nextTok, req, resp>>

httpVars == <<redis, sec, role_permissions, http, hresp, admitted>>

jwtVars == <<minted, decoded>>

vars == <<users, tokens, now, ticks, nextTok, req, resp,
          redis, sec, role_permissions, http, hresp, admitted, minted,
          decoded>>

----------------------------------------------------------------------------
(* Bounds of the model *)

\* how many raw token values generate_random_string hands out
MaxTok == 2
\* how many minutes pass after a token is issued
MaxMinutes == 3
\* how many times the clock advances
MaxTicks == 1
\* RATE_LIMITER_MAX and RATE_LIMITER_DURATION of the environment (Config)
rate_limiter_max == 2
rate_limiter_duration == 2
\* how many increments a counter key takes
MaxCount == 4
\* how many seconds the clock of the middleware advances
MaxSec == 3

(* Program constants *)

\* Duration::hours(24): lifetime of a verify-account token
VerifyTTL == 24
\* Duration::hours(2): lifetime of a reset-password token
ResetTTL == 2
\* Validation::new(Algorithm::HS256): the leeway of the exp check, in seconds
Leeway == 60
\* Duration::minutes(1), in seconds of timestamp()
Minute == 60

(* Inputs *)

Procs == {"r1", "r2"}
Emails == {"a@x", "b@x"}
\* the password of a sign-up, and the new password of a reset
Passwords == {"pw1"}
NewPasswords == {"pw2"}
\* the clock advances by the lifetime of a token
TickSteps == {ResetTTL, VerifyTTL}
\* what a store call or a mail delivery can do
Outcomes == {"ok", "err"}
\* where a transaction can fail: nowhere, at begin, at its first statement,
\* at its second statement, at commit
TxPoints == {"none", "begin", "stmt1", "stmt2", "commit"}
\* where save_user can fail: a point of its transaction, or the lookup of
\* the role name between its second INSERT and the commit
SaveUserPoints == TxPoints \cup {"role"}

----------------------------------------------------------------------------
(* Values *)

ActionType == {"verify-account", "reset-password"}

\* RoleType::get_value
RoleType == {"admin", "user"}

\* password::hash: a one-way digest, never the clear text
hash(p) == <<"hash", p>>

\* HttpError constructors: the status each one carries
server_error(m) == [status |-> 500, message |-> m]
bad_request(m) == [status |-> 400, message |-> m]
not_found(m) == [status |-> 404, message |-> m]
unique_constraint_violation(m) == [status |-> 409, message |-> m]
unauthorized(m) == [status |-> 401, message |-> m]
forbidden(m) == [status |-> 403, message |-> m]
too_many_request(m) == [status |-> 429, message |-> m]
\* SuccessResponse (200) and StatusCode::CREATED
Success == [status |-> 200, message |-> "success"]
Created == [status |-> 201, message |-> "success"]
NoResponse == [status |-> 0, message |-> "none"]

\* what e.to_string() of a store error gives: text of the driver
DriverText == "sqlx error"
\* ErrorMessage::FailedSendEmail(e.to_string())
MailText == "Failed to send email"
\* what {} of a counter-store error gives: text of the redis client
RedisText == "redis error"
\* what e.to_string() of a base64 DecodeError gives
Base64Text == "DecodeError"
\* format!("...{}", e): the literal followed by the text of e
format(literal, e) == literal \o e

----------------------------------------------------------------------------
(* The store: queries of DBClient as operators on the tables *)

\* SELECT ... FROM users WHERE u.email = $1  (fetch_optional)
get_user_by_email(us, email) ==
    {i \in DOMAIN us : us[i].email = email}

\* what is left at the id of a row of users after DELETE: no row
DeletedRow == [email |-> "", password |-> "", is_verified |-> FALSE, role_id |-> ""]

\* a lookup that still answers with what the table held before a DELETE
get_user_by_id_stale(us, id) ==
    {i \in DOMAIN us : i = id}

\* SELECT * FROM users WHERE id = $1  (fetch_optional)
get_user_by_id(us, id) ==
    {i \in DOMAIN us : i = id /\ us[i] # DeletedRow}

\* DBClient::delete_user: SELECT id ... FOR UPDATE (RowNotFound when there
\* is none), DELETE FROM users WHERE id = $1, commit
delete_user(us, user_id) ==
    IF get_user_by_id(us, user_id) = {}
    THEN [ok |-> FALSE, users |-> us]
    ELSE [ok |-> TRUE, users |-> [us EXCEPT ![user_id] = DeletedRow]]

\* SELECT ... FROM user_action_tokens WHERE token = $1 AND used_at IS NULL
get_by_token(toks, token) ==
    {i \in DOMAIN toks : toks[i].token = {token} /\ toks[i].used_at = {}}

\* a consume that writes nothing to the row
ConsumeNothing(toks, id) == toks

\* UPDATE user_action_tokens SET used_at = Now(), token = NULL,
\*   expires_at = NULL WHERE id = $1
ConsumeRow(toks, id) ==
    [i \in DOMAIN toks |->
        IF i = id
        THEN [toks[i] EXCEPT !.used_at = {now}, !.token = {}, !.expires_at = {}]
        ELSE toks[i]]

\* UPDATE users SET is_verified = true WHERE id = $1
SetVerified(us, id) ==
    [i \in DOMAIN us |->
        IF i = id THEN [us[i] EXCEPT !.is_verified = TRUE] ELSE us[i]]

\* UPDATE users SET password = $1 WHERE id = $2
SetPassword(us, id, pw) ==
    [i \in DOMAIN us |->
        IF i = id THEN [us[i] EXCEPT !.password = pw] ELSE us[i]]

\* statements that commit one by one: a failure at the second statement
\* leaves the first one in place
Autocommit(us, toks, us2, toks2, failAt) ==
    IF failAt = "none"
    THEN [ok |-> TRUE, users |-> us2, tokens |-> toks2]
    ELSE IF failAt \in {"stmt2", "commit"}
    THEN [ok |-> FALSE, users |-> us, tokens |-> toks2]
    ELSE [ok |-> FALSE, users |-> us, tokens |-> toks]

\* A transaction (pool.begin() ... commit()): the writes staged in it become
\* visible together at commit; when any step fails the Transaction is dropped
\* and nothing of it is visible.
Transaction(us, toks, us2, toks2, failAt) ==
    IF failAt = "none"
    THEN [ok |-> TRUE, users |-> us2, tokens |-> toks2]
    ELSE [ok |-> FALSE, users |-> us, tokens |-> toks]

\* DBClient::verify_account: consume the row, verify the user; fetch_one on
\* the user fails (RowNotFound) when the user row is gone
db_verify_account(us, toks, user_id, user_action_id, failAt) ==
    Transaction(us, toks,
                SetVerified(us, user_id),
                ConsumeRow(toks, user_action_id),
                IF failAt = "none" /\ user_id \notin DOMAIN us
                THEN "stmt2" ELSE failAt)

\* DBClient::reset_password: consume the row, overwrite the password
db_reset_password(us, toks, user_id, user_action_id, new_password, failAt) ==
    Transaction(us, toks,
                SetPassword(us, user_id, new_password),
                ConsumeRow(toks, user_action_id),
                IF failAt = "none" /\ user_id \notin DOMAIN us
                THEN "stmt2" ELSE failAt)

\* a regenerate that inserts a second row instead of updating the one there
InsertOnResend(toks, user_id, token, expires_at) ==
    [ok |-> TRUE,
     tokens |-> Append(toks, [user_id |-> user_id, token |-> {token},
                              action_type |-> "verify-account",
                              used_at |-> {}, expires_at |-> {expires_at}])]

\* a regenerate that writes the new token and leaves the old expiry
ResendKeepsExpiry(toks, user_id, token, expires_at) ==
    LET hit == {i \in DOMAIN toks : toks[i].user_id = user_id
                                    /\ toks[i].action_type = "verify-account"}
    IN  [ok |-> hit # {},
         tokens |-> [i \in DOMAIN toks |->
                        IF i \in hit
                        THEN [toks[i] EXCEPT !.token = {token}]
                        ELSE toks[i]]]

\* DBClient::resend_activation: UPDATE ... SET token, expires_at
\*   WHERE user_id = $3 AND action_type = 'verify-account'  (fetch_one)
db_resend_activation(toks, user_id, token, expires_at) ==
    LET hit == {i \in DOMAIN toks : toks[i].user_id = user_id
                                    /\ toks[i].action_type = "verify-account"}
    IN  [ok |-> hit # {},
         tokens |-> [i \in DOMAIN toks |->
                        IF i \in hit
                        THEN [toks[i] EXCEPT !.token = {token},
                                             !.expires_at = {expires_at}]
                        ELSE toks[i]]]

\* an upsert whose DO UPDATE leaves used_at as it was
UpsertKeepsUsedAt(toks, user_id, token, action_type, expires_at) ==
    LET hit == {i \in DOMAIN toks : toks[i].user_id = user_id
                                    /\ toks[i].action_type = action_type}
    IN  IF hit = {}
        THEN Append(toks, [user_id |-> user_id, token |-> {token},
                           action_type |-> action_type, used_at |-> {},
                           expires_at |-> {expires_at}])
        ELSE [i \in DOMAIN toks |->
                 IF i \in hit
                 THEN [toks[i] EXCEPT !.token = {token},
                                      !.expires_at = {expires_at}]
                 ELSE toks[i]]

\* DBClient::forgot_password: INSERT ... ON CONFLICT (user_id, action_type)
\*   DO UPDATE SET token, used_at = NULL, expires_at
db_forgot_password(toks, user_id, token, action_type, expires_at) ==
    LET hit == {i \in DOMAIN toks : toks[i].user_id = user_id
                                    /\ toks[i].action_type = action_type}
    IN  IF hit = {}
        THEN Append(toks, [user_id |-> user_id, token |-> {token},
                           action_type |-> action_type, used_at |-> {},
                           expires_at |-> {expires_at}])
        ELSE [i \in DOMAIN toks |->
                 IF i \in hit
                 THEN [toks[i] EXCEPT !.token = {token}, !.used_at = {},
                                      !.expires_at = {expires_at}]
                 ELSE toks[i]]

\* the unique constraint on users.email: an INSERT of a taken email fails
EmailTaken(us, email) == \E i \in DOMAIN us : us[i].email = email

\* a save_user whose INSERTs commit one by one: the user row stays when a
\* later step fails
SaveUserAutocommit(us, toks, email, password, token, action_type, expires_at, failAt) ==
    LET us2 == Append(us, [email |-> email, password |-> password,
                           is_verified |-> FALSE, role_id |-> "user"])
        toks2 == Append(toks, [user_id |-> Len(us) + 1, token |-> {token},
                               action_type |-> action_type, used_at |-> {},
                               expires_at |-> {expires_at}])
    IN  IF EmailTaken(us, email) \/ failAt \in {"begin", "stmt1"}
        THEN [ok |-> FALSE, users |-> us, tokens |-> toks]
        ELSE IF failAt = "stmt2"
        THEN [ok |-> FALSE, users |-> us2, tokens |-> toks]
        ELSE [ok |-> failAt = "none", users |-> us2, tokens |-> toks2]

\* DBClient::save_user: INSERT the user, INSERT its token row, look the role
\* up, commit. users.is_verified defaults to false.
save_user(us, toks, email, password, token, action_type, expires_at, failAt) ==
    LET us2 == Append(us, [email |-> email, password |-> password,
                           is_verified |-> FALSE, role_id |-> "user"])
        toks2 == Append(toks, [user_id |-> Len(us) + 1, token |-> {token},
                               action_type |-> action_type, used_at |-> {},
                               expires_at |-> {expires_at}])
    IN  Transaction(us, toks, us2, toks2,
                    IF failAt = "none" /\ EmailTaken(us, email)
                    THEN "stmt1" ELSE failAt)

----------------------------------------------------------------------------
(* The requests *)

Idle(p) == req[p].pc = "idle"

\* a request as it enters its handler: email is the body's email, token the
\* query's ?token=, pw a password hash, uid / rid the ids the first store
\* call returned, tok / exp the token and expiry the handler generated
NewReq(kind, email, token) ==
    [pc |-> "store", kind |-> kind, email |-> email, token |-> token,
     pw |-> << >>, uid |-> 0, rid |-> 0, tok |-> 0, exp |-> 0]

IdleReq == [NewReq("", "", 0) EXCEPT !.pc = "idle"]

\* the handler returns: the task ends and the client gets the response
Respond(p, r, res) ==
    /\ req' = [req EXCEPT ![p] = IdleReq]
    /\ resp' = [kind |-> r.kind, res |-> res]

\* the raw values a client can put in ?token=: every value handed out so
\* far, and a value never handed out
TokenInputs == 0 .. (nextTok - 1)

TypeOK ==
    /\ now \in Nat /\ ticks \in 0 .. MaxTicks /\ nextTok \in 1 .. MaxTok + 1
    /\ \A i \in DOMAIN users :
          /\ users[i].email \in Emails
          /\ users[i].is_verified \in BOOLEAN
          /\ users[i].role_id \in RoleType
    /\ \A i \in DOMAIN tokens :
          /\ tokens[i].action_type \in ActionType
          /\ tokens[i].user_id \in DOMAIN users
          /\ Cardinality(tokens[i].token) <= 1
          /\ Cardinality(tokens[i].used_at) <= 1
          /\ Cardinality(tokens[i].expires_at) <= 1
    /\ \A p \in Procs : req[p].pc \in {"idle", "store"}

----------------------------------------------------------------------------
(* The handlers of /api/auth, one action per store call *)

\* sign_up, up to save_user: validate, user_by_email, the token and its
\* expiry, the password hash, the role id of RoleType::User
sign_up(p, email, password, valid, db) ==
    /\ Idle(p)
    /\ nextTok <= MaxTok
    /\ IF ~valid
       THEN /\ Respond(p, NewReq("sign_up", email, 0), bad_request("validation"))
            /\ UNCHANGED nextTok
       ELSE IF db = "err"
       THEN /\ Respond(p, NewReq("sign_up", email, 0), server_error(DriverText))
            /\ UNCHANGED nextTok
       ELSE IF get_user_by_email(users, email) # {}
       THEN /\ Respond(p, NewReq("sign_up", email, 0),
                       unique_constraint_violation("EmailExist"))
            /\ UNCHANGED nextTok
       ELSE /\ req' = [req EXCEPT ![p] =
                         [NewReq("sign_up", email, 0) EXCEPT
                             !.pw = hash(password), !.tok = nextTok,
                             !.exp = now + VerifyTTL]]
            /\ nextTok' = nextTok + 1
            /\ UNCHANGED resp
    /\ UNCHANGED <<users, tokens, now, ticks>>
    /\ UNCHANGED <<httpVars, jwtVars>>

\* sign_up, from save_user on: the transaction, then the verification mail
sign_up_save(p, failAt, mail) ==
    /\ req[p].pc = "store" /\ req[p].kind = "sign_up"
    /\ LET r == req[p]
           tx == save_user(users, tokens, r.email, r.pw, r.tok,
                           "verify-account", r.exp, failAt)
       IN  /\ users' = tx.users
           /\ tokens' = tx.tokens
           /\ Respond(p, r,
                      IF ~tx.ok THEN server_error(DriverText)
                      ELSE IF mail = "err" THEN server_error(MailText)
                      ELSE Created)
    /\ UNCHANGED <<now, ticks, nextTok>>
    /\ UNCHANGED <<httpVars, jwtVars>>

\* an expiry check that turns the boundary down: now >= expires_at
LookupResultStrict(rows, db) ==
    IF db = "err" THEN server_error(DriverText)
    ELSE IF rows = {} THEN bad_request("TokenKeyInvalid")
    ELSE LET row == tokens[CHOOSE i \in rows : TRUE]
         IN  IF row.expires_at = {} THEN bad_request("TokenKeyExpired")
             ELSE IF \E e \in row.expires_at : now >= e
                  THEN bad_request("TokenKeyExpired")
                  ELSE NoResponse

\* user_action_by_token and the expiry check that verify_account and
\* reset_password both make on what it returns: the response of the early
\* return, or NoResponse when the handler goes on
LookupResult(rows, db) ==
    IF db = "err" THEN server_error(DriverText)
    ELSE IF rows = {} THEN bad_request("TokenKeyInvalid")
    ELSE LET row == tokens[CHOOSE i \in rows : TRUE]
         IN  IF row.expires_at = {} THEN bad_request("TokenKeyExpired")
             ELSE IF \E e \in row.expires_at : now > e
                  THEN bad_request("TokenKeyExpired")
                  ELSE NoResponse

\* verify_account, up to the transaction
verify_account(p, token, valid, db) ==
    /\ Idle(p)
    /\ LET rows == get_by_token(tokens, token)
           early == IF ~valid THEN bad_request("validation")
                    ELSE LookupResult(rows, db)
       IN  IF early # NoResponse
           THEN Respond(p, NewReq("verify", "", token), early)
           ELSE /\ \E i \in rows :
                     req' = [req EXCEPT ![p] =
                               [NewReq("verify", "", token) EXCEPT
                                   !.uid = tokens[i].user_id, !.rid = i]]
                /\ UNCHANGED resp
    /\ UNCHANGED <<users, tokens, now, ticks, nextTok>>
    /\ UNCHANGED <<httpVars, jwtVars>>

\* verify_account, from the transaction on: consume, then the welcome mail
verify_account_consume(p, failAt, mail) ==
    /\ req[p].pc = "store" /\ req[p].kind = "verify"
    /\ LET r == req[p]
           tx == db_verify_account(users, tokens, r.uid, r.rid, failAt)
       IN  /\ users' = tx.users
           /\ tokens' = tx.tokens
           /\ Respond(p, r,
                      IF ~tx.ok THEN server_error(DriverText)
                      ELSE IF mail = "err" THEN server_error(MailText)
                      ELSE Success)
    /\ UNCHANGED <<now, ticks, nextTok>>
    /\ UNCHANGED <<httpVars, jwtVars>>

\* resend_activation, up to the store's resend_activation
resend_activation(p, email, valid, db) ==
    /\ Idle(p)
    /\ nextTok <= MaxTok
    /\ LET found == get_user_by_email(users, email)
       IN  IF ~valid
           THEN /\ Respond(p, NewReq("resend", email, 0), bad_request("validation"))
                /\ UNCHANGED nextTok
           ELSE IF db = "err"
           THEN /\ Respond(p, NewReq("resend", email, 0), server_error(DriverText))
                /\ UNCHANGED nextTok
           ELSE IF found = {}
           THEN /\ Respond(p, NewReq("resend", email, 0), not_found("DataNotFound"))
                /\ UNCHANGED nextTok
           ELSE \E u \in found :
                   IF users[u].is_verified
                   THEN /\ Respond(p, NewReq("resend", email, 0),
                                   bad_request("AccountActive"))
                        /\ UNCHANGED nextTok
                   ELSE /\ req' = [req EXCEPT ![p] =
                                     [NewReq("resend", email, 0) EXCEPT
                                         !.uid = u, !.tok = nextTok,
                                         !.exp = now + VerifyTTL]]
                        /\ nextTok' = nextTok + 1
                        /\ UNCHANGED resp
    /\ UNCHANGED <<users, tokens, now, ticks>>
    /\ UNCHANGED <<httpVars, jwtVars>>

\* resend_activation, from the store's resend_activation on
resend_activation_update(p, db, mail) ==
    /\ req[p].pc = "store" /\ req[p].kind = "resend"
    /\ LET r == req[p]
           upd == db_resend_activation(tokens, r.uid, r.tok, r.exp)
       IN  /\ tokens' = IF db = "ok" /\ upd.ok THEN upd.tokens ELSE tokens
           /\ Respond(p, r,
                      IF db = "err" \/ ~upd.ok THEN server_error(DriverText)
                      ELSE IF mail = "err" THEN server_error(MailText)
                      ELSE Success)
    /\ UNCHANGED <<users, now, ticks, nextTok>>
    /\ UNCHANGED <<httpVars, jwtVars>>

\* forgot_password, up to the store's forgot_password
forgot_password(p, email, valid, db) ==
    /\ Idle(p)
    /\ nextTok <= MaxTok
    /\ LET found == get_user_by_email(users, email)
       IN  IF ~valid
           THEN /\ Respond(p, NewReq("forgot", email, 0), bad_request("validation"))
                /\ UNCHANGED nextTok
           ELSE IF db = "err"
           THEN /\ Respond(p, NewReq("forgot", email, 0), server_error(DriverText))
                /\ UNCHANGED nextTok
           ELSE IF found = {}
           THEN /\ Respond(p, NewReq("forgot", email, 0), bad_request("DataNotFound"))
                /\ UNCHANGED nextTok
           ELSE \E u \in found :
                   IF ~users[u].is_verified
                   THEN /\ Respond(p, NewReq("forgot", email, 0),
                                   bad_request("AccountNotActive"))
                        /\ UNCHANGED nextTok
                   ELSE /\ req' = [req EXCEPT ![p] =
                                     [NewReq("forgot", email, 0) EXCEPT
                                         !.uid = u, !.tok = nextTok,
                                         !.exp = now + ResetTTL]]
                        /\ nextTok' = nextTok + 1
                        /\ UNCHANGED resp
    /\ UNCHANGED <<users, tokens, now, ticks>>
    /\ UNCHANGED <<httpVars, jwtVars>>

\* forgot_password, from the store's forgot_password (the upsert) on
forgot_password_upsert(p, db, mail) ==
    /\ req[p].pc = "store" /\ req[p].kind = "forgot"
    /\ LET r == req[p]
       IN  /\ tokens' = IF db = "ok"
                        THEN db_forgot_password(tokens, r.uid, r.tok,
                                                "reset-password", r.exp)
                        ELSE tokens
           /\ Respond(p, r,
                      IF db = "err" THEN server_error(DriverText)
                      ELSE IF mail = "err" THEN server_error(MailText)
                      ELSE Success)
    /\ UNCHANGED <<users, now, ticks, nextTok>>
    /\ UNCHANGED <<httpVars, jwtVars>>

\* reset_password, up to the transaction
reset_password(p, token, new_password, valid, db) ==
    /\ Idle(p)
    /\ LET rows == get_by_token(tokens, token)
           early == IF ~valid THEN bad_request("validation")
                    ELSE LookupResult(rows, db)
       IN  IF early # NoResponse
           THEN Respond(p, NewReq("reset", "", token), early)
           ELSE /\ \E i \in rows :
                     req' = [req EXCEPT ![p] =
                               [NewReq("reset", "", token) EXCEPT
                                   !.uid = tokens[i].user_id, !.rid = i,
                                   !.pw = hash(new_password)]]
                /\ UNCHANGED resp
    /\ UNCHANGED <<users, tokens, now, ticks, nextTok>>
    /\ UNCHANGED <<httpVars, jwtVars>>

\* reset_password, from the transaction on: consume, then
\* mapping_user_response (a role lookup that can fail)
reset_password_consume(p, failAt, db) ==
    /\ req[p].pc = "store" /\ req[p].kind = "reset"
    /\ LET r == req[p]
           tx == db_reset_password(users, tokens, r.uid, r.rid, r.pw, failAt)
       IN  /\ users' = tx.users
           /\ tokens' = tx.tokens
           /\ Respond(p, r,
                      IF ~tx.ok \/ db = "err" THEN server_error(DriverText)
                      ELSE Success)
    /\ UNCHANGED <<now, ticks, nextTok>>
    /\ UNCHANGED <<httpVars, jwtVars>>

\* time passes
Tick(d) ==
    /\ ticks < MaxTicks
    /\ now' = now + d
    /\ ticks' = ticks + 1
    /\ UNCHANGED <<users, tokens, nextTok, req, resp>>
    /\ UNCHANGED <<httpVars, jwtVars>>

----------------------------------------------------------------------------
(* The counter store (Redis) *)

\* the fallback of rate_limit when the request carries no SocketAddr
FallbackIp == "http://localhost:4000"

\* the remote address of the connection each task serves: two clients
Peer == [p \in Procs |-> IF p = "r1" THEN "10.0.0.1" ELSE "10.0.0.2"]

\* the extensions of a server that hands each request the remote address
ConnectInfoAddrs == {{Peer[p]} : p \in Procs}

\* the SocketAddr extensions a request reaches rate_limit with: create_router
\* and main insert none
SocketAddrs == {{}}

\* format!("rate_limit:{}:ip-{}", path, ip)
RedisKey(path, ip) == <<"rate_limit", path, ip>>

\* a key that does not exist; n is the value of a key, ttl its time to live
\* (0: none), age the seconds since it was created
AbsentKey == [n |-> 0, ttl |-> 0, age |-> 0]

\* an INCR that stops counting at rate_limiter_max
IncrSaturates(r, key) ==
    IF r[key].n >= rate_limiter_max THEN r ELSE [r EXCEPT ![key].n = @ + 1]

\* INCR key 1: creates the key at 1 when it is absent, keeps its TTL
INCR(r, key) == [r EXCEPT ![key].n = @ + 1]

\* an EXPIRE that gives the key one second to live
ExpireInOneSecond(r, key, secs) ==
    IF r[key].n = 0 THEN r ELSE [r EXCEPT ![key].ttl = 1]

\* EXPIRE key secs: no effect on an absent key, deletes the key when secs
\* is not positive
EXPIRE(r, key, secs) ==
    IF r[key].n = 0 THEN r
    ELSE IF secs <= 0 THEN [r EXCEPT ![key] = AbsentKey]
    ELSE [r EXCEPT ![key].ttl = secs]

\* one second passes in the counter store: a key whose TTL runs out is gone
Expiry(r) ==
    [key \in DOMAIN r |->
        IF r[key].n = 0 THEN r[key]
        ELSE IF r[key].ttl = 1 THEN AbsentKey
        ELSE IF r[key].ttl = 0 THEN [r[key] EXCEPT !.age = @ + 1]
        ELSE [r[key] EXCEPT !.ttl = @ - 1, !.age = @ + 1]]

\* "as u32" on the reply of INCR: a reply from 0 to MaxCount, far below
\* 2^32, is its own value as a u32
AsU32(x) == x

----------------------------------------------------------------------------
(* The router *)

\* the routes of create_router the model serves: the nest under /api, the
\* path, and the permission of the route's check_permission layer
RouteTable ==
    {[nest |-> "", path |-> "/api/ping", basic |-> FALSE, permission |-> {}],
     [nest |-> "auth", path |-> "/api/auth/login", basic |-> FALSE,
      permission |-> {}],
     [nest |-> "auth", path |-> "/api/auth/basic", basic |-> TRUE,
      permission |-> {}],
     [nest |-> "user", path |-> "/api/user/self", basic |-> FALSE,
      permission |-> {"user:self"}],
     [nest |-> "post", path |-> "/api/post", basic |-> FALSE,
      permission |-> {"post:create"}]}

Route(path) == CHOOSE rt \in RouteTable : rt.path = path

Paths == {rt.path : rt \in RouteTable}

\* the keys rate_limit can build: a path and the ip of an extension or the
\* fallback
CounterKeys ==
    {RedisKey(path, ip) : path \in Paths,
                          ip \in {FallbackIp} \cup UNION SocketAddrs}

\* Permission::to_string of the permissions the routes ask for
Permissions == UNION {rt.permission : rt \in RouteTable}

\* a router that puts check_permission outside auth_token
LayersPermissionFirst(path) ==
    <<"rate_limit">>
    \o (IF Route(path).permission # {}
        THEN <<"check_permission">> ELSE << >>)
    \o (IF Route(path).nest \in {"user", "post", "comment"}
        THEN <<"auth_token">> ELSE << >>)
    \o (IF Route(path).basic THEN <<"auth_basic">> ELSE << >>)
    \o <<"handler">>

\* the layers a request to path passes, outermost first: rate_limit on the
\* whole router, auth_token on the nests /user, /post and /comment,
\* auth_basic or check_permission on the route, then the handler
Layers(path) ==
    <<"rate_limit">>
    \o (IF Route(path).nest \in {"user", "post", "comment"}
        THEN <<"auth_token">> ELSE << >>)
    \o (IF Route(path).basic THEN <<"auth_basic">> ELSE << >>)
    \o (IF Route(path).permission # {}
        THEN <<"check_permission">> ELSE << >>)
    \o <<"handler">>

\* next.run(req): the layer that follows stage for a request to path
NextLayer(path, stage) ==
    LET ls == Layers(path)
        i == CHOOSE k \in DOMAIN ls : ls[k] = stage
    IN  ls[i + 1]

----------------------------------------------------------------------------
(* Credentials: a string is a sequence of atoms *)

\* JWT_SECRET_KEY of the environment, and a key that is not it
jwt_secret == "secret"
JwtKeys == {jwt_secret, "forged"}

\* the subject of a token: the text of a UUID (of the user row id) or not
Subject(isUuid, id) == [uuid |-> isUuid, id |-> id]
\* the empty string
NoSubject == Subject(FALSE, 0)

Atom(kind) ==
    [kind |-> kind, sub |-> NoSubject, iat |-> 0, exp |-> 0, nbf |-> 0,
     key |-> "", text |-> << >>]
Space == Atom(" ")
Bearer == Atom("Bearer")
Word == Atom("word")
\* an encoded token: its claims sub and exp, and the key it is signed with
Jwt(sub, exp, key) == [Atom("jwt") EXCEPT !.sub = sub, !.exp = exp, !.key = key]

\* encode(&Header::default(), &claims, &EncodingKey::from_secret(secret))
encode(claims, secret) ==
    [Atom("jwt") EXCEPT !.sub = claims.sub, !.iat = claims.iat,
                        !.exp = claims.exp, !.nbf = claims.nbf, !.key = secret]

\* the scheme of a Basic header
Basic == Atom("Basic")
\* the base64 of the text t, a sequence of pieces of which ":" is the colon
B64(t) == [Atom("base64") EXCEPT !.text = t]
\* the base64 of bytes that are not UTF-8, and a text that is not base64
B64Binary == Atom("base64 of bytes")
NotBase64 == Atom("%")

\* AUTH_BASIC_USERNAME and AUTH_BASIC_PASSWORD of the environment
auth_basic_username == <<"user">>
auth_basic_password == <<"pass">>

\* general_purpose::STANDARD.decode: Ok(bytes) is {atom}, Err is {}
base64_decode(a) == IF a.kind \in {"base64", "base64 of bytes"} THEN {a} ELSE {}

\* String::from_utf8: Ok(text) is {text}, Err is {}
from_utf8(a) == IF a.kind = "base64" THEN {a.text} ELSE {}

\* str::split(sep).collect(): the parts between the separators
RECURSIVE split(_, _)
split(t, sep) ==
    IF \A i \in DOMAIN t : t[i] # sep
    THEN <<t>>
    ELSE LET k == CHOOSE i \in DOMAIN t :
                     t[i] = sep /\ \A j \in 1 .. (i - 1) : t[j] # sep
         IN  <<SubSeq(t, 1, k - 1)>> \o split(SubSeq(t, k + 1, Len(t)), sep)

\* str::trim().is_empty()
TrimIsEmpty(s) == \A i \in DOMAIN s : s[i] = Space

\* str::starts_with("Bearer ")
StartsWithBearer(s) == Len(s) >= 2 /\ s[1] = Bearer /\ s[2] = Space

\* str::split_whitespace().collect()
IsNotSpace(a) == a # Space
split_whitespace(s) == SelectSeq(s, IsNotSpace)

\* create_token without the check of the subject
create_token_unchecked(user_id, secret, expires_in_minutes) ==
    {encode([sub |-> user_id, iat |-> sec,
             exp |-> sec + Minute * expires_in_minutes, nbf |-> sec], secret)}

\* jwt::create_token: Err (no token, {}) for an empty subject, else the
\* claims sub, iat = nbf = Utc::now() and exp = now + the minutes, encoded
create_token(user_id, secret, expires_in_minutes) ==
    IF user_id = NoSubject
    THEN {}
    ELSE {encode([sub |-> user_id, iat |-> sec,
                  exp |-> sec + Minute * expires_in_minutes, nbf |-> sec],
                 secret)}

\* decode::<TokenClaims>(token, key, &Validation::new(Algorithm::HS256)):
\* "Ok" or the kind of the error. The token must have the structure of a
\* JWT, then its signature must verify under the key, then exp is checked
\* with the leeway; the default Validation does not check nbf
decode(token, secret) ==
    IF Len(token) # 1 \/ token[1].kind # "jwt" THEN "InvalidToken"
    ELSE IF token[1].key # secret THEN "InvalidSignature"
    ELSE IF token[1].exp < sec - Leeway THEN "ExpiredSignature"
    ELSE "Ok"

\* a decode that does not check the signature
parse_token_unsigned(token, secret) ==
    IF /\ Len(token) = 1
       /\ token[1].kind = "jwt"
       /\ token[1].exp >= sec - Leeway
    THEN {token[1].sub}
    ELSE {}

\* jwt::parse_token: Ok(token.claims.sub) is {sub}; every Err of decode
\* becomes the one Err, {}
parse_token(token, secret) ==
    IF decode(token, secret) = "Ok" THEN {token[1].sub} ELSE {}

\* create_token has not been called: the arguments it will be called with
ToMint(user_id, secret, expires_in_minutes) ==
    [user_id |-> user_id, secret |-> secret,
     expires_in_minutes |-> expires_in_minutes,
     called |-> FALSE, at |-> 0, out |-> {}]

NoMint == ToMint(NoSubject, "", 0)

\* parse_token has not been called
NoDecode ==
    [token |-> << >>, secret |-> "", at |-> 0, out |-> {}, err |-> NoResponse]

\* Uuid::parse_str
Uuid_parse_str(sub) == IF sub.uuid THEN {sub.id} ELSE {}

\* a lookup that grants the administrator every permission
get_permission_admin_bypass(rp, role_id) ==
    IF role_id = "admin" THEN Permissions ELSE rp[role_id]

\* SELECT p.name FROM permissions JOIN role_permissions WHERE rp.role_id = $1
get_permission_by_role(rp, role_id) == rp[role_id]

\* AuthenticatedUser { user }
AuthenticatedUser(id) == [id |-> id, user |-> users[id]]

----------------------------------------------------------------------------
(* The requests in the middleware stack *)

\* a request as it enters the router: ran lists the stages it has entered
NewHttp(path, addr, cookie, header) ==
    [pc |-> "rate_limit", path |-> path, addr |-> addr, cookie |-> cookie,
     header |-> header, count |-> 0, ident |-> {}, ran |-> << >>]

IdleHttp == [NewHttp("", {}, {}, {}) EXCEPT !.pc = "idle"]

NoHttpResponse ==
    [path |-> "", res |-> NoResponse, ran |-> << >>, ident |-> {},
     count |-> 0]

\* a stage returns a response: the request ends there
Reply(p, r, res) ==
    /\ http' = [http EXCEPT ![p] = IdleHttp]
    /\ hresp' = [path |-> r.path, res |-> res, ran |-> r.ran,
                 ident |-> r.ident, count |-> r.count]

\* next.run(req): the request r goes on to the layer after stage
Forward(p, r, stage) ==
    /\ http' = [http EXCEPT ![p] = [r EXCEPT !.pc = NextLayer(r.path, stage)]]
    /\ UNCHANGED hresp

\* the key of the counter of request r
KeyOf(r) ==
    RedisKey(r.path, IF r.addr = {} THEN FallbackIp
                     ELSE CHOOSE ip \in r.addr : TRUE)

\* no request has been passed on
NoneAdmitted ==
    [key \in CounterKeys |->
        [a \in 0 .. rate_limiter_duration |-> 0]]

\* Ok(next.run(req).await) of rate_limit: one more request passed on now
Admit(adm, key) == [adm EXCEPT ![key][0] = @ + 1]

\* d seconds pass: what was passed on more than rate_limiter_duration
\* seconds ago is no longer kept
Elapsed(adm, d) ==
    [key \in DOMAIN adm |->
        [a \in 0 .. rate_limiter_duration |->
            IF a >= d THEN adm[key][a - d] ELSE 0]]

\* a check that denies the request that reaches the maximum: count >= max
ThrottleAtMax(p, r) ==
    IF r.count >= rate_limiter_max
    THEN Reply(p, r, too_many_request("TooManyRequest")) /\ UNCHANGED admitted
    ELSE Forward(p, r, "rate_limit") /\ admitted' = Admit(admitted, KeyOf(r))

\* rate_limit after its store calls: count against rate_limiter_max
Throttle(p, r) ==
    IF r.count > rate_limiter_max
    THEN Reply(p, r, too_many_request("TooManyRequest")) /\ UNCHANGED admitted
    ELSE Forward(p, r, "rate_limit") /\ admitted' = Admit(admitted, KeyOf(r))

\* rate_limit, up to INCR: the key, then get_conn
rate_limit(p, path, addr, cookie, header, conn) ==
    /\ http[p].pc = "idle"
    /\ LET r == [NewHttp(path, addr, cookie, header) EXCEPT
                    !.ran = <<"rate_limit">>]
       IN  IF conn = "err"
           THEN Reply(p, r, server_error(format("Failed to get connection from the redis: ", RedisText)))
           ELSE /\ http' = [http EXCEPT ![p] = [r EXCEPT !.pc = "incr"]]
                /\ UNCHANGED hresp
    /\ UNCHANGED <<redis, sec, role_permissions, admitted>>
    /\ UNCHANGED <<tokVars, jwtVars>>

\* an INCR step that goes on to EXPIRE whenever the key has no TTL
IncrRepairsTtl(p, out) ==
    /\ http[p].pc = "incr"
    /\ redis[KeyOf(http[p])].n < MaxCount
    /\ IF out = "err"
       THEN /\ Reply(p, http[p], server_error(format("Redis incr error: ", RedisText)))
            /\ UNCHANGED <<redis, admitted>>
       ELSE LET key == KeyOf(http[p])
                r == [http[p] EXCEPT !.count = AsU32(redis[key].n + 1)]
            IN  /\ redis' = INCR(redis, key)
                /\ IF redis[key].ttl = 0
                   THEN /\ http' = [http EXCEPT ![p] = [r EXCEPT !.pc = "expire"]]
                        /\ UNCHANGED <<hresp, admitted>>
                   ELSE Throttle(p, r)
    /\ UNCHANGED <<sec, role_permissions>>
    /\ UNCHANGED <<tokVars, jwtVars>>

\* an INCR step after which every request gives the key a new TTL
IncrExtendsTtl(p, out) ==
    /\ http[p].pc = "incr"
    /\ redis[KeyOf(http[p])].n < MaxCount
    /\ IF out = "err"
       THEN /\ Reply(p, http[p], server_error(format("Redis incr error: ", RedisText)))
            /\ UNCHANGED <<redis, admitted>>
       ELSE LET key == KeyOf(http[p])
                r == [http[p] EXCEPT !.count = AsU32(redis[key].n + 1)]
            IN  /\ redis' = EXPIRE(INCR(redis, key), key, rate_limiter_duration)
                /\ Throttle(p, r)
    /\ UNCHANGED <<sec, role_permissions>>
    /\ UNCHANGED <<tokVars, jwtVars>>

\* rate_limit, INCR: when the count is not 1 the check follows at once
rate_limit_incr(p, out) ==
    /\ http[p].pc = "incr"
    /\ redis[KeyOf(http[p])].n < MaxCount
    /\ IF out = "err"
       THEN /\ Reply(p, http[p], server_error(format("Redis incr error: ", RedisText)))
            /\ UNCHANGED <<redis, admitted>>
       ELSE LET key == KeyOf(http[p])
                r == [http[p] EXCEPT !.count = AsU32(redis[key].n + 1)]
            IN  /\ redis' = INCR(redis, key)
                /\ IF r.count = 1
                   THEN /\ http' = [http EXCEPT ![p] = [r EXCEPT !.pc = "expire"]]
                        /\ UNCHANGED <<hresp, admitted>>
                   ELSE Throttle(p, r)
    /\ UNCHANGED <<sec, role_permissions>>
    /\ UNCHANGED <<tokVars, jwtVars>>

\* an EXPIRE whose error is ignored: the request goes on to the check
ExpireFailsOpen(p, out) ==
    /\ http[p].pc = "expire"
    /\ IF out = "err"
       THEN /\ Throttle(p, http[p])
            /\ UNCHANGED redis
       ELSE /\ redis' = EXPIRE(redis, KeyOf(http[p]), rate_limiter_duration)
            /\ Throttle(p, http[p])
    /\ UNCHANGED <<sec, role_permissions>>
    /\ UNCHANGED <<tokVars, jwtVars>>

\* rate_limit, EXPIRE after the increment that returned 1, then the check
rate_limit_expire(p, out) ==
    /\ http[p].pc = "expire"
    /\ IF out = "err"
       THEN /\ Reply(p, http[p], server_error(format("Failed to expire key: ", RedisText)))
            /\ UNCHANGED <<redis, admitted>>
       ELSE /\ redis' = EXPIRE(redis, KeyOf(http[p]), rate_limiter_duration)
            /\ Throttle(p, http[p])
    /\ UNCHANGED <<sec, role_permissions>>
    /\ UNCHANGED <<tokVars, jwtVars>>

\* an auth_token that answers a failed lookup with ServerError
auth_token_lookup_500(p, db) ==
    /\ http[p].pc = "auth_token"
    /\ LET r == [http[p] EXCEPT !.ran = Append(@, "auth_token")]
           cookie_or_header == IF r.cookie # {} THEN r.cookie ELSE r.header
           denied(m) == Reply(p, r, unauthorized(m))
       IN  IF cookie_or_header = {}
           THEN denied("TokenNotProvided")
           ELSE LET s == CHOOSE c \in cookie_or_header : TRUE
                    parts == split_whitespace(s)
                    token == IF StartsWithBearer(s) /\ Len(parts) >= 2
                             THEN <<parts[2]>> ELSE s
                    token_user_id == parse_token(token, jwt_secret)
                    user_id == UNION {Uuid_parse_str(sub) : sub \in token_user_id}
                    user == UNION {get_user_by_id(users, id) : id \in user_id}
                IN  IF TrimIsEmpty(s)
                    THEN denied("TokenNotProvided")
                    ELSE IF /\ StartsWithBearer(s)
                            /\ (Len(parts) # 2 \/ parts[1] # Bearer)
                    THEN denied("TokenInvalid")
                    ELSE IF token_user_id = {} \/ user_id = {}
                    THEN denied("TokenInvalid")
                    ELSE IF db = "err"
                    THEN Reply(p, r, server_error("ServerError"))
                    ELSE IF user = {}
                    THEN denied("UserNoLongerExist")
                    ELSE \E id \in user :
                            Forward(p, [r EXCEPT !.ident = {AuthenticatedUser(id)}],
                                    "auth_token")
    /\ UNCHANGED <<redis, sec, role_permissions, admitted>>
    /\ UNCHANGED <<tokVars, jwtVars>>

\* an auth_token that falls back to the Authorization header when the
\* cookie is blank or its token does not verify
auth_token_cookie_fallback(p, db) ==
    /\ http[p].pc = "auth_token"
    /\ LET r == [http[p] EXCEPT !.ran = Append(@, "auth_token")]
           usable(c) ==
               /\ ~TrimIsEmpty(c)
               /\ parse_token(IF StartsWithBearer(c)
                                 /\ Len(split_whitespace(c)) >= 2
                              THEN <<split_whitespace(c)[2]>> ELSE c,
                              jwt_secret) # {}
           cookie_or_header ==
               IF r.cookie # {} /\ \A c \in r.cookie : usable(c)
               THEN r.cookie ELSE r.header
           denied(m) == Reply(p, r, unauthorized(m))
       IN  IF cookie_or_header = {}
           THEN denied("TokenNotProvided")
           ELSE LET s == CHOOSE c \in cookie_or_header : TRUE
                    parts == split_whitespace(s)
                    token == IF StartsWithBearer(s) /\ Len(parts) >= 2
                             THEN <<parts[2]>> ELSE s
                    token_user_id == parse_token(token, jwt_secret)
                    user_id == UNION {Uuid_parse_str(sub) : sub \in token_user_id}
                    user == UNION {get_user_by_id(users, id) : id \in user_id}
                IN  IF TrimIsEmpty(s)
                    THEN denied("TokenNotProvided")
                    ELSE IF /\ StartsWithBearer(s)
                            /\ (Len(parts) # 2 \/ parts[1] # Bearer)
                    THEN denied("TokenInvalid")
                    ELSE IF token_user_id = {} \/ user_id = {}
                    THEN denied("TokenInvalid")
                    ELSE IF db = "err" \/ user = {}
                    THEN denied("UserNoLongerExist")
                    ELSE \E id \in user :
                            Forward(p, [r EXCEPT !.ident = {AuthenticatedUser(id)}],
                                    "auth_token")
    /\ UNCHANGED <<redis, sec, role_permissions, admitted>>
    /\ UNCHANGED <<tokVars, jwtVars>>

\* an auth_token that reads the Authorization header before the cookie
auth_token_header_first(p, db) ==
    /\ http[p].pc = "auth_token"
    /\ LET r == [http[p] EXCEPT !.ran = Append(@, "auth_token")]
           cookie_or_header == IF r.header # {} THEN r.header ELSE r.cookie
           denied(m) == Reply(p, r, unauthorized(m))
       IN  IF cookie_or_header = {}
           THEN denied("TokenNotProvided")
           ELSE LET s == CHOOSE c \in cookie_or_header : TRUE
                    parts == split_whitespace(s)
                    token == IF StartsWithBearer(s) /\ Len(parts) >= 2
                             THEN <<parts[2]>> ELSE s
                    token_user_id == parse_token(token, jwt_secret)
                    user_id == UNION {Uuid_parse_str(sub) : sub \in token_user_id}
                    user == UNION {get_user_by_id(users, id) : id \in user_id}
                IN  IF TrimIsEmpty(s)
                    THEN denied("TokenNotProvided")
                    ELSE IF /\ StartsWithBearer(s)
                            /\ (Len(parts) # 2 \/ parts[1] # Bearer)
                    THEN denied("TokenInvalid")
                    ELSE IF token_user_id = {} \/ user_id = {}
                    THEN denied("TokenInvalid")
                    ELSE IF db = "err" \/ user = {}
                    THEN denied("UserNoLongerExist")
                    ELSE \E id \in user :
                            Forward(p, [r EXCEPT !.ident = {AuthenticatedUser(id)}],
                                    "auth_token")
    /\ UNCHANGED <<redis, sec, role_permissions, admitted>>
    /\ UNCHANGED <<tokVars, jwtVars>>

\* auth_token: the credential, parse_token, Uuid::parse_str, get_user_by_id
auth_token(p, db) ==
    /\ http[p].pc = "auth_token"
    /\ LET r == [http[p] EXCEPT !.ran = Append(@, "auth_token")]
           cookie_or_header == IF r.cookie # {} THEN r.cookie ELSE r.header
           denied(m) == Reply(p, r, unauthorized(m))
       IN  IF cookie_or_header = {}
           THEN denied("TokenNotProvided")
           ELSE LET s == CHOOSE c \in cookie_or_header : TRUE
                    parts == split_whitespace(s)
                    token == IF StartsWithBearer(s) /\ Len(parts) >= 2
                             THEN <<parts[2]>> ELSE s
                    token_user_id == parse_token(token, jwt_secret)
                    user_id == UNION {Uuid_parse_str(sub) : sub \in token_user_id}
                    user == UNION {get_user_by_id(users, id) : id \in user_id}
                IN  IF TrimIsEmpty(s)
                    THEN denied("TokenNotProvided")
                    ELSE IF /\ StartsWithBearer(s)
                            /\ (Len(parts) # 2 \/ parts[1] # Bearer)
                    THEN denied("TokenInvalid")
                    ELSE IF token_user_id = {} \/ user_id = {}
                    THEN denied("TokenInvalid")
                    ELSE IF db = "err" \/ user = {}
                    THEN denied("UserNoLongerExist")
                    ELSE \E id \in user :
                            Forward(p, [r EXCEPT !.ident = {AuthenticatedUser(id)}],
                                    "auth_token")
    /\ UNCHANGED <<redis, sec, role_permissions, admitted>>
    /\ UNCHANGED <<tokVars, jwtVars>>

\* a check of the username alone
auth_basic_any_password(p) ==
    /\ http[p].pc = "auth_basic"
    /\ LET r == [http[p] EXCEPT !.ran = Append(@, "auth_basic")]
           denied(m) == Reply(p, r, unauthorized(m))
       IN  IF r.header = {}
           THEN denied("TokenNotProvided")
           ELSE LET basic_value == CHOOSE h \in r.header : TRUE
                    parts == split_whitespace(basic_value)
                    decoded_bytes == base64_decode(parts[2])
                    decoded_string == UNION {from_utf8(b) : b \in decoded_bytes}
                IN  IF TrimIsEmpty(basic_value)
                    THEN denied("TokenNotProvided")
                    ELSE IF Len(parts) # 2 \/ parts[1] # Basic
                    THEN denied("TokenInvalid")
                    ELSE IF decoded_bytes = {}
                    THEN denied(Base64Text)
                    ELSE IF decoded_string = {}
                    THEN denied("TokenInvalid")
                    ELSE \E text \in decoded_string :
                            IF split(text, ":")[1] # auth_basic_username
                            THEN denied("WrongCredentials")
                            ELSE Forward(p, r, "auth_basic")
    /\ UNCHANGED <<redis, sec, role_permissions, admitted>>
    /\ UNCHANGED <<tokVars, jwtVars>>

\* auth_basic: the Authorization header, "Basic" and one more part, base64,
\* UTF-8, split(':') in two parts that are the configured username and
\* password
auth_basic_env(p, env) ==
    /\ http[p].pc = "auth_basic"
    /\ LET r == [http[p] EXCEPT !.ran = Append(@, "auth_basic")]
           denied(m) == Reply(p, r, unauthorized(m))
       IN  IF r.header = {}
           THEN denied("TokenNotProvided")
           ELSE LET basic_value == CHOOSE h \in r.header : TRUE
                    parts == split_whitespace(basic_value)
                    decoded_bytes == base64_decode(parts[2])
                    decoded_string == UNION {from_utf8(b) : b \in decoded_bytes}
                IN  IF TrimIsEmpty(basic_value)
                    THEN denied("TokenNotProvided")
                    ELSE IF Len(parts) # 2 \/ parts[1] # Basic
                    THEN denied("TokenInvalid")
                    ELSE IF decoded_bytes = {}
                    THEN denied(Base64Text)
                    ELSE IF decoded_string = {}
                    THEN denied("TokenInvalid")
                    ELSE \E text \in decoded_string :
                            LET credentials == split(text, ":")
                            IN  IF \/ Len(credentials) # 2
                                   \/ credentials[1] # env.auth_basic_username
                                   \/ credentials[2] # env.auth_basic_password
                                THEN denied("WrongCredentials")
                                ELSE Forward(p, r, "auth_basic")
    /\ UNCHANGED <<redis, sec, role_permissions, admitted>>
    /\ UNCHANGED <<tokVars, jwtVars>>

\* auth_basic under the configured credentials
auth_basic(p) ==
    auth_basic_env(p, [auth_basic_username |-> auth_basic_username,
                       auth_basic_password |-> auth_basic_password])

\* a gate that lets the request through when the lookup fails
PermissionFailsOpen(p, db) ==
    /\ http[p].pc = "check_permission"
    /\ LET r == [http[p] EXCEPT !.ran = Append(@, "check_permission")]
           permission == Route(r.path).permission
       IN  IF r.ident = {}
           THEN Reply(p, r, unauthorized("UserNotAuthenticated"))
           ELSE IF db = "err"
           THEN Forward(p, r, "check_permission")
           ELSE \E authenticated_user \in r.ident :
                   IF ~(permission \subseteq
                          get_permission_by_role(role_permissions,
                                                 authenticated_user.user.role_id))
                   THEN Reply(p, r, forbidden("PermissionDenied"))
                   ELSE Forward(p, r, "check_permission")
    /\ UNCHANGED <<redis, sec, role_permissions, admitted>>
    /\ UNCHANGED <<tokVars, jwtVars>>

\* a gate that queries the store before it looks for the identity
PermissionLooksUpFirst(p, db) ==
    /\ http[p].pc = "check_permission"
    /\ LET r == [http[p] EXCEPT !.ran = Append(@, "check_permission")]
           permission == Route(r.path).permission
       IN  IF db = "err"
           THEN Reply(p, r, server_error("ServerError"))
           ELSE IF r.ident = {}
           THEN Reply(p, r, unauthorized("UserNotAuthenticated"))
           ELSE \E authenticated_user \in r.ident :
                   IF ~(permission \subseteq
                          get_permission_by_role(role_permissions,
                                                 authenticated_user.user.role_id))
                   THEN Reply(p, r, forbidden("PermissionDenied"))
                   ELSE Forward(p, r, "check_permission")
    /\ UNCHANGED <<redis, sec, role_permissions, admitted>>
    /\ UNCHANGED <<tokVars, jwtVars>>

\* check_permission(permission): the identity, the role's permissions
check_permission(p, db) ==
    /\ http[p].pc = "check_permission"
    /\ LET r == [http[p] EXCEPT !.ran = Append(@, "check_permission")]
           permission == Route(r.path).permission
       IN  IF r.ident = {}
           THEN Reply(p, r, unauthorized("UserNotAuthenticated"))
           ELSE IF db = "err"
           THEN Reply(p, r, server_error("ServerError"))
           ELSE \E authenticated_user \in r.ident :
                   LET permission_by_role ==
                           get_permission_by_role(role_permissions,
                                                  authenticated_user.user.role_id)
                   IN  IF ~(permission \subseteq permission_by_role)
                       THEN Reply(p, r, forbidden("PermissionDenied"))
                       ELSE Forward(p, r, "check_permission")
    /\ UNCHANGED <<redis, sec, role_permissions, admitted>>
    /\ UNCHANGED <<tokVars, jwtVars>>

\* the business handler of the route runs and answers
handler(p) ==
    /\ http[p].pc = "handler"
    /\ Reply(p, [http[p] EXCEPT !.ran = Append(@, "handler")], Success)
    /\ UNCHANGED <<redis, sec, role_permissions, admitted>>
    /\ UNCHANGED <<tokVars, jwtVars>>

\* a second passes
TickSec ==
    /\ sec < Leeway + 1 + MaxSec
    /\ sec' = sec + 1
    /\ redis' = Expiry(redis)
    /\ admitted' = Elapsed(admitted, 1)
    /\ UNCHANGED <<role_permissions, http, hresp>>
    /\ UNCHANGED <<tokVars, jwtVars>>

----------------------------------------------------------------------------
(* The middleware stack under requests *)

\* the rows the users table holds: an administrator and a plain user
SeedUsers ==
    <<[email |-> "admin@x", password |-> hash("pw1"), is_verified |-> TRUE,
       role_id |-> "admin"],
      [email |-> "a@x", password |-> hash("pw1"), is_verified |-> TRUE,
       role_id |-> "user"]>>

\* exp claims: long past, past by the leeway at the start, ahead
ExpInputs == {0, 1, Leeway + 1 + MaxSec}

\* the tokens a client presents: of a user, of a user that is gone, with a
\* subject that is no UUID, signed with another key, expired
JwtInputs ==
    {Jwt(Subject(TRUE, id), Leeway + 1 + MaxSec, jwt_secret) : id \in 1 .. 3}
    \cup {Jwt(Subject(FALSE, 0), Leeway + 1 + MaxSec, jwt_secret),
          Jwt(Subject(TRUE, 1), Leeway + 1 + MaxSec, "forged")}
    \cup {Jwt(Subject(TRUE, 2), e, jwt_secret) : e \in ExpInputs}

\* the values of the cookie "token" or of the Authorization header
CredentialStrings ==
    {<<j>> : j \in JwtInputs}
    \cup {<<Bearer, Space, j>> : j \in JwtInputs}
    \cup {<< >>, <<Space>>, <<Bearer, Space>>, <<Bearer, Space, Space>>,
          <<Bearer, Space, Word, Space, Word>>, <<Word>>}

\* what a request carries: nothing, a cookie, a header, or both
CredentialInputs ==
    {[cookie |-> {}, header |-> {}]}
    \cup {[cookie |-> {s}, header |-> {}] : s \in CredentialStrings}
    \cup {[cookie |-> {}, header |-> {s}] : s \in CredentialStrings}
    \cup {[cookie |-> {<<Word>>},
           header |-> {<<Bearer, Space,
                         Jwt(Subject(TRUE, 1), Leeway + 1 + MaxSec, jwt_secret)>>}]}

\* RP: the role-permission matrices the store may hold
InitHttp(RP) ==
    /\ users = SeedUsers
    /\ tokens = << >>
    /\ now = 0
    /\ ticks = 0
    /\ nextTok = 1
    /\ req = [p \in Procs |-> IdleReq]
    /\ resp = [kind |-> "", res |-> NoResponse]
    /\ redis = [key \in CounterKeys |-> AbsentKey]
    /\ sec = Leeway + 1
    /\ role_permissions \in RP
    /\ http = [p \in Procs |-> IdleHttp]
    /\ hresp = NoHttpResponse
    /\ minted = NoMint
    /\ admitted = NoneAdmitted
    /\ decoded = NoDecode

\* the rate limiter and the handler: P the tasks, R the paths requested, C
\* the credentials presented
NextLimiter(P, R, C) ==
    \/ \E p \in P, path \in R, addr \in SocketAddrs, c \in C, conn \in Outcomes :
          rate_limit(p, path, addr, c.cookie, c.header, conn)
    \/ \E p \in P, out \in Outcomes : rate_limit_incr(p, out)
    \/ \E p \in P, out \in Outcomes : rate_limit_expire(p, out)
    \/ \E p \in P : handler(p)
    \/ TickSec

NextPipe ==
    \/ NextLimiter({"r1"}, {"/api/user/self"}, CredentialInputs)
    \/ \E db \in Outcomes : auth_token("r1", db)
    \/ \E db \in Outcomes : check_permission("r1", db)

\* concurrent requests to the routes without authentication
SpecRL ==
    InitHttp({[role_id \in RoleType |-> Permissions]})
    /\ [][NextLimiter(Procs, {"/api/ping"},
                               {[cookie |-> {}, header |-> {}]})]_vars

\* SpecRL while the clock of the counter store keeps running
SpecRLLive ==
    InitHttp({[role_id \in RoleType |-> Permissions]})
    /\ [][NextLimiter(Procs, {"/api/ping"},
                               {[cookie |-> {}, header |-> {}]})]_vars
    /\ WF_vars(TickSec)

\* requests to a protected route, one at a time
SpecPipe ==
    InitHttp([RoleType -> SUBSET Route("/api/user/self").permission])
    /\ [][NextPipe]_vars

----------------------------------------------------------------------------
(* The authorization gate, called on its own *)

\* the routes behind a check_permission layer
GatedPaths == {rt.path : rt \in {x \in RouteTable : x.permission # {}}}

\* req.extensions().get::<AuthenticatedUser>(): None, or the identity of a
\* user row
IdentityInputs == {{}} \cup {{AuthenticatedUser(id)} : id \in DOMAIN users}

\* the layer of a route calls check_permission(state, req, next, permission)
\* with the request as it is, with or without an identity in its extensions
CallCheckPermission(p, path, ident) ==
    /\ http[p].pc = "idle"
    /\ http' = [http EXCEPT ![p] =
                   [NewHttp(path, {}, {}, {}) EXCEPT
                       !.pc = "check_permission", !.ident = ident]]
    /\ UNCHANGED <<redis, sec, role_permissions, hresp, admitted>>
    /\ UNCHANGED <<tokVars, jwtVars>>

NextGate ==
    \/ \E path \in GatedPaths, ident \in IdentityInputs :
          CallCheckPermission("r1", path, ident)
    \/ \E db \in Outcomes : check_permission("r1", db)
    \/ handler("r1")

\* check_permission for every route, identity and role-permission matrix
SpecGate == InitHttp([RoleType -> SUBSET Permissions]) /\ [][NextGate]_vars

----------------------------------------------------------------------------
(* The Basic route *)

\* the texts a client encodes: the configured credentials, the username
\* with other passwords (another word, none, one with a colon, a longer
\* one), another username, a text without colon, the empty text
OtherPasswords == {<<"pw2">>, << >>, <<"pass", ":", "x">>, <<"pass", "x">>}

BasicTexts ==
    {auth_basic_username \o <<":">> \o auth_basic_password}
    \cup {auth_basic_username \o <<":">> \o w : w \in OtherPasswords}
    \cup {<<"root", ":">> \o auth_basic_password, auth_basic_username, << >>}

\* the values of the Authorization header of a request to /api/auth/basic
BasicStrings ==
    {<<Basic, Space, B64(t)>> : t \in BasicTexts}
    \cup {<< >>, <<Space>>, <<Basic>>, <<Basic, Space>>,
          <<Bearer, Space, B64(auth_basic_username \o <<":">> \o auth_basic_password)>>,
          <<Basic, Space, Space, B64(auth_basic_username \o <<":">> \o auth_basic_password)>>,
          <<Basic, Space, B64(auth_basic_username \o <<":">> \o auth_basic_password),
            Space, Word>>,
          <<Basic, Space, NotBase64>>, <<Basic, Space, B64Binary>>}

BasicInputs ==
    {[cookie |-> {}, header |-> {}]}
    \cup {[cookie |-> {}, header |-> {h}] : h \in BasicStrings}

NextBasic ==
    \/ NextLimiter({"r1"}, {"/api/auth/basic"}, BasicInputs)
    \/ auth_basic("r1")

\* requests to /api/auth/basic, one at a time
SpecBasic ==
    InitHttp({[role_id \in RoleType |-> Permissions]}) /\ [][NextBasic]_vars

----------------------------------------------------------------------------
(* /api/auth/basic when the configured password holds a colon *)

\* an AUTH_BASIC_PASSWORD with a ":" in it, and the configuration with it
ColonPassword == <<"pa", ":", "ss">>
ColonEnv ==
    [auth_basic_username |-> auth_basic_username,
     auth_basic_password |-> ColonPassword]

\* the headers of the requests: the configured credentials, the password up
\* to its colon, another password, another username, no colon at all
ColonInputs ==
    {[cookie |-> {}, header |-> {}]}
    \cup {[cookie |-> {}, header |-> {<<Basic, Space, B64(t)>>}] :
            t \in {auth_basic_username \o <<":">> \o ColonPassword,
                   auth_basic_username \o <<":", "pa">>,
                   auth_basic_username \o <<":">> \o auth_basic_password,
                   <<"root", ":">> \o ColonPassword,
                   auth_basic_username}}

NextColon ==
    \/ NextLimiter({"r1"}, {"/api/auth/basic"}, ColonInputs)
    \/ \E addr \in SocketAddrs, conn \in Outcomes :
          rate_limit("r1", "/api/ping", addr, {}, {}, conn)
    \/ auth_basic_env("r1", ColonEnv)

\* requests to /api/auth/basic, and to /api/ping without credential, one at
\* a time, under ColonEnv
SpecColon ==
    InitHttp({[role_id \in RoleType |-> Permissions]}) /\ [][NextColon]_vars

----------------------------------------------------------------------------
(* A protected route while users are deleted *)

\* user_delete of another request, or any other client of the store:
\* delete_user(id) commits or fails
DeleteUser(user_id, db) ==
    /\ user_id \in DOMAIN users
    /\ users' = IF db = "ok" THEN delete_user(users, user_id).users ELSE users
    /\ UNCHANGED <<tokens, now, ticks, nextTok, req, resp>>
    /\ UNCHANGED <<httpVars, jwtVars>>

\* what the requests carry: nothing, the token of each user with exp ahead
\* of every time reached, and a token of the plain user that expires
StaleInputs ==
    {[cookie |-> {}, header |-> {}]}
    \cup {[cookie |-> {}, header |-> {<<Bearer, Space, j>>}] :
            j \in {Jwt(Subject(TRUE, 1), Leeway + 1 + MaxSec, jwt_secret),
                   Jwt(Subject(TRUE, 2), Leeway + 1 + MaxSec, jwt_secret),
                   Jwt(Subject(TRUE, 2), 1, jwt_secret)}}
    \cup {[cookie |-> {<<Jwt(Subject(TRUE, 2), Leeway + 1 + MaxSec, jwt_secret)>>},
           header |-> {}]}

NextStale ==
    \/ NextLimiter({"r1"}, {"/api/user/self"}, StaleInputs)
    \/ \E db \in Outcomes : auth_token("r1", db)
    \/ \E db \in Outcomes : check_permission("r1", db)
    \/ \E id \in DOMAIN users, db \in Outcomes : DeleteUser(id, db)

\* requests to a protected route, one at a time, and deletions of users
SpecStale ==
    InitHttp({[role_id \in RoleType |-> Permissions]}) /\ [][NextStale]_vars

----------------------------------------------------------------------------
(* A protected route, for the credential auth_token extracts *)

\* the token of the plain user, valid at every time reached
UserJwt == Jwt(Subject(TRUE, 2), Leeway + 1 + MaxSec, jwt_secret)

\* the credentials of CredentialInputs, and more shapes: two spaces after
\* Bearer, a space before the token, a space before Bearer, Bearer without
\* space, a blank cookie beside a header, a cookie with the Bearer prefix
ExtractInputs ==
    CredentialInputs
    \cup {[cookie |-> {}, header |-> {h}] :
            h \in {<<Bearer, Space, Space, UserJwt>>, <<Space, UserJwt>>,
                   <<Space, Bearer, Space, UserJwt>>, <<Bearer>>,
                   <<Bearer, UserJwt>>}}
    \cup {[cookie |-> {<<Space>>}, header |-> {<<Bearer, Space, UserJwt>>}],
          [cookie |-> {<<Bearer, Space, UserJwt>>}, header |-> {<<Word>>}]}

NextExtract ==
    \/ NextLimiter({"r1"}, {"/api/user/self"}, ExtractInputs)
    \/ \E db \in Outcomes : auth_token("r1", db)
    \/ \E db \in Outcomes : check_permission("r1", db)

\* requests to a protected route, one at a time, with every shape of
\* credential
SpecExtract ==
    InitHttp({[role_id \in RoleType |-> Permissions]}) /\ [][NextExtract]_vars

----------------------------------------------------------------------------
(* A cookie beside a good Authorization header *)

\* the token of the admin, valid at every time reached
AdminJwt == Jwt(Subject(TRUE, 1), Leeway + 1 + MaxSec, jwt_secret)

\* the cookie "token" of a request: none, the empty value, a blank, a text
\* that is no token, a token of another key, an expired token, the token of
\* the plain user alone and after the Bearer prefix
CookieValues ==
    {{}, {<< >>}, {<<Space>>}, {<<Word>>},
     {<<Jwt(Subject(TRUE, 2), Leeway + 1 + MaxSec, "forged")>>},
     {<<Jwt(Subject(TRUE, 2), 0, jwt_secret)>>},
     {<<UserJwt>>}, {<<Bearer, Space, UserJwt>>}}

\* the Authorization header of every request: the token of the admin,
\* after the Bearer prefix or alone
GoodHeaders == {{<<Bearer, Space, AdminJwt>>}, {<<AdminJwt>>}}

CookieInputs ==
    {[cookie |-> c, header |-> h] : c \in CookieValues, h \in GoodHeaders}

NextCookie ==
    \/ NextLimiter({"r1"}, {"/api/user/self"}, CookieInputs)
    \/ \E db \in Outcomes : auth_token("r1", db)
    \/ \E db \in Outcomes : check_permission("r1", db)

\* requests to a protected route, one at a time, each with a good
\* Authorization header and one of the cookies
SpecCookie ==
    InitHttp({[role_id \in RoleType |-> Permissions]}) /\ [][NextCookie]_vars

----------------------------------------------------------------------------
(* The token codec, called on its own *)

\* the arguments of create_token: the subject empty, the text of a UUID or
\* another text; the key; the minutes
SubjectInputs == {NoSubject, Subject(TRUE, 1), Subject(FALSE, 1)}
TtlInputs == {1, 2}

\* a time no step of the model reaches
Horizon == Leeway + 1 + MaxSec + Minute * MaxMinutes + 1

\* the strings given to parse_token: the token create_token returned, the
\* empty string, a text that is no token, and a token of the same key that
\* is not valid before the Horizon
ParseInputs ==
    {<<j>> : j \in minted.out}
    \cup {<< >>, <<Word>>}
    \cup {<<encode([sub |-> Subject(TRUE, 1), iat |-> 0, exp |-> Horizon,
                    nbf |-> Horizon], jwt_secret)>>}

\* sign_in: jwt::create_token(&user.id.to_string(), secret, max_age)
CreateToken ==
    /\ ~minted.called
    /\ sec <= Leeway + 1 + MaxSec
    /\ minted' = [minted EXCEPT
                    !.called = TRUE, !.at = sec,
                    !.out = create_token(minted.user_id, minted.secret,
                                         minted.expires_in_minutes)]
    /\ UNCHANGED decoded
    /\ UNCHANGED <<tokVars, httpVars>>

\* auth_token: jwt::parse_token(token, secret)
ParseToken(token, secret) ==
    /\ decoded' = [token |-> token, secret |-> secret, at |-> sec,
                   out |-> parse_token(token, secret),
                   err |-> IF parse_token(token, secret) = {}
                           THEN unauthorized("TokenInvalid")
                           ELSE NoResponse]
    /\ UNCHANGED minted
    /\ UNCHANGED <<tokVars, httpVars>>

\* d seconds pass in the counter store: Expiry, d times
ExpiryBy(r, d) ==
    [key \in DOMAIN r |->
        IF r[key].n = 0 THEN r[key]
        ELSE IF r[key].ttl = 0 THEN [r[key] EXCEPT !.age = @ + d]
        ELSE IF r[key].ttl <= d THEN AbsentKey
        ELSE [r[key] EXCEPT !.ttl = @ - d, !.age = @ + d]]

\* a minute passes
TickMinute ==
    /\ sec + Minute <= Leeway + 1 + MaxSec + Minute * MaxMinutes
    /\ sec' = sec + Minute
    /\ redis' = ExpiryBy(redis, Minute)
    /\ admitted' = Elapsed(admitted, Minute)
    /\ UNCHANGED <<role_permissions, http, hresp>>
    /\ UNCHANGED <<tokVars, jwtVars>>

\* the arguments create_token is called with
InitJwt ==
    /\ users = SeedUsers
    /\ tokens = << >>
    /\ now = 0
    /\ ticks = 0
    /\ nextTok = 1
    /\ req = [p \in Procs |-> IdleReq]
    /\ resp = [kind |-> "", res |-> NoResponse]
    /\ redis = [key \in CounterKeys |-> AbsentKey]
    /\ sec = Leeway + 1
    /\ role_permissions = [role_id \in RoleType |-> Permissions]
    /\ http = [p \in Procs |-> IdleHttp]
    /\ hresp = NoHttpResponse
    /\ minted \in {ToMint(s, k, t) : s \in SubjectInputs, k \in JwtKeys,
                                      t \in TtlInputs}
    /\ admitted = NoneAdmitted
    /\ decoded = NoDecode

NextJwt ==
    \/ CreateToken
    \/ \E token \in ParseInputs, secret \in JwtKeys : ParseToken(token, secret)
    \/ TickSec
    \/ TickMinute

\* a token is issued and parsed as time passes
SpecJwt == InitJwt /\ [][NextJwt]_vars

----------------------------------------------------------------------------
(* The action-token lifecycle under concurrent requests *)

InitTok ==
    /\ users = << >>
    /\ tokens = << >>
    /\ now = 0
    /\ ticks = 0
    /\ nextTok = 1
    /\ req = [p \in Procs |-> IdleReq]
    /\ resp = [kind |-> "", res |-> NoResponse]
    /\ redis = [key \in CounterKeys |-> AbsentKey]
    /\ sec = Leeway + 1
    /\ role_permissions = [role_id \in RoleType |-> {}]
    /\ http = [p \in Procs |-> IdleHttp]
    /\ hresp = NoHttpResponse
    /\ minted = NoMint
    /\ admitted = NoneAdmitted
    /\ decoded = NoDecode

\* P: the tasks that serve requests; E: the emails clients sign up with
NextTok(P, E) ==
    \/ \E p \in P, e \in E, w \in Passwords, v \in BOOLEAN, db \in Outcomes :
          sign_up(p, e, w, v, db)
    \/ \E p \in P, f \in SaveUserPoints, m \in Outcomes : sign_up_save(p, f, m)
    \/ \E p \in P, t \in TokenInputs, v \in BOOLEAN, db \in Outcomes :
          verify_account(p, t, v, db)
    \/ \E p \in P, f \in TxPoints, m \in Outcomes :
          verify_account_consume(p, f, m)
    \/ \E p \in P, e \in E, v \in BOOLEAN, db \in Outcomes :
          resend_activation(p, e, v, db)
    \/ \E p \in P, db \in Outcomes, m \in Outcomes :
          resend_activation_update(p, db, m)
    \/ \E p \in P, e \in E, v \in BOOLEAN, db \in Outcomes :
          forgot_password(p, e, v, db)
    \/ \E p \in P, db \in Outcomes, m \in Outcomes :
          forgot_password_upsert(p, db, m)
    \/ \E p \in P, t \in TokenInputs, w \in NewPasswords, v \in BOOLEAN, db \in Outcomes :
          reset_password(p, t, w, v, db)
    \/ \E p \in P, f \in TxPoints, db \in Outcomes :
          reset_password_consume(p, f, db)
    \/ \E d \in TickSteps : Tick(d)

\* requests served one at a time, for two accounts
SpecSeq == InitTok /\ [][NextTok({"r1"}, Emails)]_vars

\* two requests in flight at once, for one account
SpecTok == InitTok /\ [][NextTok(Procs, {"a@x"})]_vars

\* the instant at which the prior rows of the account were issued and the
\* instant the requests start at; raw values the counter never hands out
IssuedAt == 0
StartAt == IssuedAt + ResetTTL + 1
OldResetToken == 0 - 2

\* what forgot-password can find for a verified account: no ResetPassword
\* row (Absent), one issued and not yet expired (Active), one whose expiry
\* has passed (Expired), one that reset-password consumed (Consumed)
PriorResetRows ==
    LET row == [user_id |-> 1, token |-> {OldResetToken},
                action_type |-> "reset-password", used_at |-> {},
                expires_at |-> {StartAt + 1}]
    IN  {<< >>,
         <<row>>,
         <<[row EXCEPT !.expires_at = {IssuedAt + ResetTTL}]>>,
         <<[row EXCEPT !.token = {}, !.expires_at = {},
                       !.used_at = {IssuedAt + 1}]>>}

\* the account a@x after sign-up and verify-account: the user verified and
\* its VerifyAccount row consumed
InitIssue ==
    /\ users = <<[email |-> "a@x", password |-> hash("pw1"),
                  is_verified |-> TRUE, role_id |-> "user"]>>
    /\ \E prior \in PriorResetRows :
          tokens = <<[user_id |-> 1, token |-> {},
                      action_type |-> "verify-account",
                      used_at |-> {IssuedAt}, expires_at |-> {}]>> \o prior
    /\ now = StartAt
    /\ ticks = 0
    /\ nextTok = 1
    /\ req = [p \in Procs |-> IdleReq]
    /\ resp = [kind |-> "", res |-> NoResponse]
    /\ redis = [key \in CounterKeys |-> AbsentKey]
    /\ sec = Leeway + 1
    /\ role_permissions = [role_id \in RoleType |-> {}]
    /\ http = [p \in Procs |-> IdleHttp]
    /\ hresp = NoHttpResponse
    /\ minted = NoMint
    /\ admitted = NoneAdmitted
    /\ decoded = NoDecode

\* requests served one at a time, for an account that exists and a new one
SpecIssue == InitIssue /\ [][NextTok({"r1"}, Emails)]_vars

----------------------------------------------------------------------------
(* Sign-in *)

\* JWT_MAX_AGE of the environment, in minutes
jwt_max_age == 2

\* what e.to_string() of an error of password::compare gives
PasswordText == "password error"

\* password::compare(password, hashed): whether hashed is the digest of
\* the clear text
compare(password, hashed) == hash(password) = hashed

\* a sign_in without the check of is_verified
NeverNotActive(user) == FALSE

\* if !user.is_verified { return Err(... AccountNotActive ...) }
NotActive(user) == ~user.is_verified

\* Cookie::build(("token", token)).path("/").max_age(minutes).http_only(true)
Cookie(token) ==
    [name |-> "token", value |-> token, path |-> "/",
     max_age |-> Minute * jwt_max_age, http_only |-> TRUE]

\* SuccessResponse of SignInResponse { user, token } with the SET_COOKIE
\* header
SignInResponse(token, cookie) ==
    [status |-> 200, message |-> "success", token |-> token,
     set_cookie |-> cookie]

\* sign_in, up to mapping_user_response: validate, user_by_email, the
\* check of is_verified, password::compare (cmp: whether it returns Ok),
\* jwt::create_token for the id of the user. minted holds the call of
\* create_token and the token it returned, the local `token` of the task
sign_in(p, email, password, valid, cmp, db) ==
    /\ Idle(p)
    /\ LET found == get_user_by_email(users, email)
           r == NewReq("sign_in", email, 0)
           user == users[CHOOSE u \in found : TRUE]
           early ==
               IF ~valid THEN bad_request("validation")
               ELSE IF db = "err" THEN server_error(DriverText)
               ELSE IF found = {} THEN bad_request("WrongCredentials")
               ELSE IF NotActive(user) THEN bad_request("AccountNotActive")
               ELSE IF cmp = "err" THEN server_error(PasswordText)
               ELSE IF ~compare(password, user.password)
                    THEN bad_request("WrongCredentials")
               ELSE NoResponse
       IN  IF early # NoResponse
           THEN /\ Respond(p, r, early)
                /\ UNCHANGED minted
           ELSE \E u \in found :
                  LET user_id == Subject(TRUE, u)
                      token == create_token(user_id, jwt_secret, jwt_max_age)
                  IN  /\ minted' = [ToMint(user_id, jwt_secret, jwt_max_age)
                                       EXCEPT !.called = TRUE, !.at = sec,
                                              !.out = token]
                      /\ IF token = {}
                         THEN Respond(p, r, server_error("jwt error"))
                         ELSE /\ req' = [req EXCEPT ![p] =
                                           [r EXCEPT !.uid = u]]
                              /\ UNCHANGED resp
    /\ UNCHANGED <<users, tokens, now, ticks, nextTok>>
    /\ UNCHANGED decoded
    /\ UNCHANGED httpVars

\* sign_in, from mapping_user_response on: the role lookup, that can fail,
\* then the response with the token in its body and in the cookie
sign_in_respond(p, db) ==
    /\ req[p].pc = "store" /\ req[p].kind = "sign_in"
    /\ Respond(p, req[p],
               IF db = "err" THEN server_error(DriverText)
               ELSE LET token == CHOOSE t \in minted.out : TRUE
                    IN  SignInResponse(token, Cookie(token)))
    /\ UNCHANGED <<users, tokens, now, ticks, nextTok>>
    /\ UNCHANGED <<httpVars, jwtVars>>

\* the passwords a client signs in with: the one of sign-up and the one of
\* reset-password
SignInPasswords == Passwords \cup NewPasswords

NextSignIn ==
    \/ NextTok({"r1"}, {"a@x"})
    \/ \E e \in Emails, w \in SignInPasswords, v \in BOOLEAN,
          c \in Outcomes, db \in Outcomes :
          sign_in("r1", e, w, v, c, db)
    \/ \E db \in Outcomes : sign_in_respond("r1", db)

\* one account is signed up, verified and has its password reset while
\* clients sign in to it and to an account that does not exist, one
\* request at a time
SpecSignIn == InitTok /\ [][NextSignIn]_vars

----------------------------------------------------------------------------
(* Vocabulary of the action-token claims *)

\* the row is Consumed: token and expires_at null, used_at set
Consumed(row) == row.token = {} /\ row.expires_at = {} /\ row.used_at # {}

\* the raw value t is held by an unused row whose expiry is still ahead
Unexpired(t) ==
    \E i \in get_by_token(tokens, t) : \E e \in tokens[i].expires_at : now < e

\* the raw value t was handed out, no unused row holds it and no request in
\* flight is about to store it
Dead(t) ==
    /\ t < nextTok
    /\ get_by_token(tokens, t) = {}
    /\ \A q \in Procs : req[q].tok # t

\* task p sends the response of a verify-account or reset-password request
\* that had passed the lookup
ConsumeStep(p) ==
    /\ req[p].pc = "store" /\ req[p].kind \in {"verify", "reset"}
    /\ req'[p].pc = "idle"

\* the user mutation of the request r is in place in the users table us
Mutated(us, r) ==
    /\ r.uid \in DOMAIN us
    /\ IF r.kind = "verify" THEN us[r.uid].is_verified
                            ELSE us[r.uid].password = r.pw

\* task p takes the request with the raw token t into verify_account or
\* reset_password, the store answering
LookupStep(p, t) ==
    /\ req[p].pc = "idle" /\ now' = now
    /\ IF req'[p].pc = "store"
       THEN req'[p].token = t /\ req'[p].kind \in {"verify", "reset"}
       ELSE resp'.kind \in {"verify", "reset"}
    /\ \/ verify_account(p, t, TRUE, "ok")
       \/ \E w \in NewPasswords : reset_password(p, t, w, TRUE, "ok")

----------------------------------------------------------------------------
(* C1: served one at a time, the first verify-account or reset-password   *)
(* request that carries the raw value of an unused, unexpired token passes *)
(* the lookup and, the store and the mail answering, succeeds: the user    *)
(* mutation is applied and the row is Consumed (token and expires_at null, *)
(* used_at set), after which the raw value is dead; a dead raw value stays *)
(* dead, and every request carrying a dead raw value is answered           *)
(* TokenKeyInvalid with the users and the token rows unchanged.            *)
C1_ConsumeOnce ==
    [][\A p \in Procs :
         /\ \A t \in 0 .. MaxTok :
              /\ Dead(t) => get_by_token(tokens', t) = {}
              /\ LookupStep(p, t)
                    => /\ Unexpired(t)
                            => /\ req'[p].pc = "store"
                               /\ tokens[req'[p].rid].token = {t}
                       /\ Dead(t)
                            => /\ resp'.res = bad_request("TokenKeyInvalid")
                               /\ UNCHANGED <<users, tokens>>
         /\ req[p].pc = "store"
            /\ \/ verify_account_consume(p, "none", "ok")
               \/ reset_password_consume(p, "none", "ok")
               => /\ resp'.res = Success
                  /\ Mutated(users', req[p])
                  /\ Consumed(tokens'[req[p].rid])
                  /\ get_by_token(tokens', req[p].token) = {}]_vars

\* a verify-account request has just been answered TokenKeyInvalid while the
\* only raw value ever handed out is the one of a Consumed row of a verified
\* user: the token was consumed and a later request did not get through
C1_Witness ==
    /\ resp = [kind |-> "verify", res |-> bad_request("TokenKeyInvalid")]
    /\ nextTok = 2
    /\ \E i \in DOMAIN tokens :
          Consumed(tokens[i]) /\ users[tokens[i].user_id].is_verified

(* C2: of two concurrent verify-account (or reset-password) requests that  *)
(* carry the same raw token, at most one passes lookup-validate-consume    *)
(* and succeeds: a request succeeds only if the raw token it carries is    *)
(* still held by an unused row when its consume is applied.                *)
C2_ConsumeAtMostOnce ==
    [][\A p \in Procs :
         ConsumeStep(p) /\ resp'.res = Success
            => get_by_token(tokens, req[p].token) # {}]_vars

(* C3: consume is atomic. Whatever the step at which verify_account or     *)
(* reset_password of the store fails, when the request is answered either  *)
(* the row is Consumed and the user mutation is applied, or the users and  *)
(* the token rows are as they were.                                        *)
C3_ConsumeAtomic ==
    [][\A p \in Procs :
         ConsumeStep(p)
            => \/ UNCHANGED <<users, tokens>>
               \/ /\ Consumed(tokens'[req[p].rid])
                  /\ Mutated(users', req[p])]_vars

\* a verify-account request was answered with the store's error while the
\* token is still unused and its user still unverified: the failed consume
\* left neither write behind
C3_Witness ==
    /\ resp = [kind |-> "verify", res |-> server_error(DriverText)]
    /\ \E i \in DOMAIN tokens :
          /\ tokens[i].token # {} /\ tokens[i].used_at = {}
          /\ ~users[tokens[i].user_id].is_verified
    /\ \A p \in Procs : req[p].pc = "idle"

(* C8: no row of user_action_tokens has used_at set together with a        *)
(* non-null token or a non-null expires_at.                                *)
C8_UsedExclusive ==
    \A i \in DOMAIN tokens :
        tokens[i].used_at # {}
            => tokens[i].token = {} /\ tokens[i].expires_at = {}

\* task p stores what an issue or a regenerate built, the store answering:
\* sign-up, resend-activation or forgot-password
IssueStep(p) ==
    /\ req[p].pc = "store"
    /\ \E m \in Outcomes :
          \/ sign_up_save(p, "none", m)
          \/ resend_activation_update(p, "ok", m)
          \/ forgot_password_upsert(p, "ok", m)

\* the (user_id, action_type) the request r issues a token for
IssuedFor(r) ==
    [user_id |-> IF r.kind = "sign_up" THEN Len(users) + 1 ELSE r.uid,
     action_type |-> IF r.kind = "forgot" THEN "reset-password"
                     ELSE "verify-account"]

\* the rows of toks for the pair k
RowsOf(toks, k) ==
    {i \in DOMAIN toks : /\ toks[i].user_id = k.user_id
                         /\ toks[i].action_type = k.action_type}

(* C9: served one at a time, after every issue or regenerate (sign-up,     *)
(* resend-activation, forgot-password) there is at most one row per        *)
(* (user_id, action_type); the row of the pair the token was issued for    *)
(* holds the token and the expiry issued last, and no other raw value      *)
(* looks up to a row of that pair.                                         *)
C9_OneRowLatestToken ==
    [][\A p \in Procs :
         IssueStep(p)
            => LET r == req[p]
                   k == IssuedFor(r)
               IN  /\ \A i, j \in DOMAIN tokens' :
                         /\ tokens'[i].user_id = tokens'[j].user_id
                         /\ tokens'[i].action_type = tokens'[j].action_type
                         => i = j
                   /\ Cardinality(RowsOf(tokens', k)) = 1
                   /\ \A i \in RowsOf(tokens', k) :
                         /\ tokens'[i].token = {r.tok}
                         /\ tokens'[i].expires_at = {r.exp}
                   /\ r.tok = nextTok - 1
                   /\ \A t \in 0 .. MaxTok :
                         t # r.tok
                            => get_by_token(tokens', t) \cap RowsOf(tokens', k) = {}]_vars

\* resend-activation has just succeeded for the only account: its one row
\* holds the second raw value handed out, and the first no longer looks up
C9_Witness ==
    /\ resp = [kind |-> "resend", res |-> Success]
    /\ Len(tokens) = 1
    /\ tokens[1].token = {2}
    /\ get_by_token(tokens, 1) = {}

\* task p takes a request with the raw token t through the lookup and the
\* expiry check, and goes on to consume
Accepted(p) == req'[p].pc = "store"

(* C10 as the specification states it: a looked-up token is accepted if    *)
(* and only if used_at is null and expires_at > now; a token at the        *)
(* boundary expires_at = now is not valid.                                 *)
C10_ValidIffExpiresAfterNow ==
    [][\A p \in Procs : \A t \in 0 .. MaxTok :
         LookupStep(p, t)
            => (Accepted(p)
                   <=> \E i \in DOMAIN tokens :
                          /\ tokens[i].token = {t}
                          /\ tokens[i].used_at = {}
                          /\ \E e \in tokens[i].expires_at : e > now)]_vars

(* C10: a looked-up token is accepted if and only if used_at is null and   *)
(* now > expires_at does not hold, that is expires_at >= now: a token      *)
(* whose expires_at is in the past is answered TokenKeyExpired, a token    *)
(* whose expires_at is ahead passes, and a token at the boundary           *)
(* expires_at = now passes as well.                                        *)
C10_ValidIffNotPastExpiry ==
    [][\A p \in Procs : \A t \in 0 .. MaxTok :
         LookupStep(p, t)
            => /\ Accepted(p)
                   <=> \E i \in DOMAIN tokens :
                          /\ tokens[i].token = {t}
                          /\ tokens[i].used_at = {}
                          /\ \E e \in tokens[i].expires_at : e >= now
               /\ \A i \in get_by_token(tokens, t) :
                     (\E e \in tokens[i].expires_at : e < now)
                        => resp'.res = bad_request("TokenKeyExpired")]_vars

\* a verify-account or reset-password request is past the expiry check with
\* a token whose expires_at is the present hour, some time after its issue
C10_Witness ==
    /\ ticks > 0
    /\ \E p \in Procs :
          /\ req[p].pc = "store" /\ req[p].kind \in {"verify", "reset"}
          /\ tokens[req[p].rid].expires_at = {now}

----------------------------------------------------------------------------
(* Vocabulary of the middleware claims *)

\* the counter key of the route a request to path counts against
Counter(path) == redis[RedisKey(path, FallbackIp)]
\* the same key after the step
CounterAfter(path) == redis'[RedisKey(path, FallbackIp)]

\* the request of task p is past the rate limiter
Allowed(p) == http'[p].pc = NextLayer(http[p].path, "rate_limit")

\* the request of task p is answered by the stage it is in
Answered(p, res) == http'[p].pc = "idle" /\ hresp'.res = res

(* C4 as the specification states it: once the window W has elapsed since  *)
(* the counter key of a (route, client) was created, the key is gone, so   *)
(* that a new request counts from one and is allowed again.                *)
C4_WindowElapses ==
    \A key \in DOMAIN redis :
        redis[key].n > 0 => redis[key].age < rate_limiter_duration

(* C4: the requests to a (route, client) are counted by the increments     *)
(* since its key was absent; with the store answering, the k-th one is     *)
(* allowed if k <= M and denied with TooManyRequest (429) if k > M. The    *)
(* window runs from the EXPIRE of the first request, not from its          *)
(* increment: that EXPIRE gives the key W seconds to live, a TTL is never  *)
(* taken off or extended, each second takes one off, and when it runs out  *)
(* the key is absent, so that the next request counts as the first again;  *)
(* until that EXPIRE is applied the key has no TTL and keeps counting.     *)
C4_FixedWindow ==
    [][/\ \A p \in Procs :
            /\ http[p].pc = "incr" /\ rate_limit_incr(p, "ok")
                  => LET k == Counter(http[p].path).n + 1
                     IN  /\ CounterAfter(http[p].path).n = k
                         /\ k = 1 => http'[p].pc = "expire"
                         /\ 1 < k /\ k <= rate_limiter_max => Allowed(p)
                         /\ k > rate_limiter_max
                               => Answered(p, too_many_request("TooManyRequest"))
            /\ http[p].pc = "expire" /\ rate_limit_expire(p, "ok")
                  => /\ Counter(http[p].path).ttl = 0
                     /\ CounterAfter(http[p].path).ttl = rate_limiter_duration
                     /\ CounterAfter(http[p].path).n = Counter(http[p].path).n
                     /\ rate_limiter_max >= 1 => Allowed(p)
       /\ \A key \in DOMAIN redis :
            /\ redis[key].ttl <= rate_limiter_duration
            /\ redis[key].ttl > 0 /\ sec' = sec
                  => redis'[key].ttl = redis[key].ttl /\ redis'[key].n >= redis[key].n
            /\ redis[key].ttl > 1 /\ sec' # sec
                  => redis'[key].ttl = redis[key].ttl - 1 /\ redis'[key].n = redis[key].n
            /\ redis[key].ttl = 1 /\ sec' # sec => redis'[key] = AbsentKey
            /\ redis[key].n > 0 /\ redis[key].ttl = 0
                  => redis'[key].n >= redis[key].n]_vars

\* a request is past the rate limiter as the first of a new window of the
\* counter, and the response sent last is the denial of request M + 1 to
\* the same route
C4_Witness ==
    \E p \in Procs :
        /\ http[p].pc = "handler" /\ http[p].count = 1
        /\ Counter(http[p].path).n = 1
        /\ hresp.path = http[p].path
        /\ hresp.res = too_many_request("TooManyRequest")
        /\ hresp.count = rate_limiter_max + 1

\* the order of the stages of a protected route
StageOrder == <<"rate_limit", "auth_token", "check_permission", "handler">>

IsPrefix(s, t) == Len(s) <= Len(t) /\ \A i \in DOMAIN s : s[i] = t[i]

\* the routes under /api/user, /api/post and /api/comment
Protected(path) ==
    path \in Paths /\ Route(path).nest \in {"user", "post", "comment"}

\* the role of the identity ident holds the permission of the route
Holds(ident, path) ==
    \A u \in ident : Route(path).permission \subseteq role_permissions[u.user.role_id]

(* C5: for every request to a protected route the stages are entered in    *)
(* the order rate_limit, auth_token, check_permission, handler: a stage is *)
(* entered only after every stage before it, the handler only with a count *)
(* within the maximum, an identity attached and the route's permission     *)
(* held by its role; a request answered by a stage before the handler has  *)
(* entered no later stage, and only the handler answers with success.      *)
C5_PipelineOrder ==
    /\ \A p \in Procs :
          LET r == http[p]
          IN  r.pc # "idle" /\ Protected(r.path)
                 => /\ IsPrefix(r.ran, StageOrder)
                    /\ r.pc \in {"incr", "expire"}
                          => r.ran = <<"rate_limit">> /\ r.ident = {}
                    /\ r.pc = "auth_token"
                          => /\ r.ran = <<"rate_limit">>
                             /\ r.count \in 1 .. rate_limiter_max
                             /\ r.ident = {}
                    /\ r.pc = "check_permission"
                          => /\ r.ran = <<"rate_limit", "auth_token">>
                             /\ r.count \in 1 .. rate_limiter_max
                             /\ r.ident # {}
                    /\ r.pc = "handler"
                          => /\ r.ran = <<"rate_limit", "auth_token",
                                          "check_permission">>
                             /\ r.count \in 1 .. rate_limiter_max
                             /\ r.ident # {} /\ Holds(r.ident, r.path)
    /\ Protected(hresp.path)
          => /\ IsPrefix(hresp.ran, StageOrder)
             /\ hresp.ran # << >>
             /\ hresp.res = Success <=> hresp.ran = StageOrder
             /\ hresp.ran = StageOrder
                   => /\ hresp.count \in 1 .. rate_limiter_max
                      /\ hresp.ident # {} /\ Holds(hresp.ident, hresp.path)
             /\ hresp.res.status = 429 => hresp.ran = <<"rate_limit">>
             /\ hresp.res.status = 401
                   => hresp.ran = <<"rate_limit", "auth_token">>
             /\ hresp.res.status = 403
                   => hresp.ran = <<"rate_limit", "auth_token", "check_permission">>

\* the handler of the protected route has answered a request of the plain
\* user that went through all four stages
C5_Witness ==
    /\ hresp.path = "/api/user/self"
    /\ hresp.res = Success
    /\ hresp.ran = StageOrder
    /\ \E u \in hresp.ident : u.id = 2

\* the credential auth_token reads from request r: the cookie "token", the
\* Authorization header when there is no such cookie
CredentialOf(r) == IF r.cookie # {} THEN r.cookie ELSE r.header

\* the encoded tokens in the credential of request r
JwtsOf(r) ==
    {j \in UNION {{s[i] : i \in DOMAIN s} : s \in CredentialOf(r)} :
        j.kind = "jwt"}

\* the token j verifies: signed with the secret, exp not past the leeway
Verifies(j) == j.key = jwt_secret /\ j.exp + Leeway >= sec

(* C6: auth_token passes a request on only when its credential holds a     *)
(* token that verifies, whose subject is a UUID and is the id of a row of  *)
(* users; the identity it attaches is that row under that id, and the next *)
(* stage is check_permission. On every other path the request is answered  *)
(* with status 401 by auth_token, no identity is attached and no later     *)
(* stage is entered.                                                       *)
C6_AuthFailsClosed ==
    [][\A p \in Procs :
         http[p].pc = "auth_token" /\ http'[p] # http[p]
            => IF http'[p].pc # "idle"
               THEN /\ http'[p].pc = "check_permission"
                    /\ \E j \in JwtsOf(http[p]) :
                          /\ Verifies(j)
                          /\ j.sub.uuid
                          /\ j.sub.id \in DOMAIN users
                          /\ http'[p].ident =
                                {[id |-> j.sub.id, user |-> users[j.sub.id]]}
               ELSE /\ hresp'.res.status = 401
                    /\ hresp'.ident = {}
                    /\ hresp'.ran = <<"rate_limit", "auth_token">>]_vars

\* a request that presented the token of the plain user is past auth_token
\* with that user attached
C6_Witness ==
    \E p \in Procs :
        /\ http[p].pc = "check_permission"
        /\ http[p].ident = {[id |-> 2, user |-> users[2]]}
        /\ \E j \in JwtsOf(http[p]) : j.sub = Subject(TRUE, 2) /\ Verifies(j)

(* C7: for every attached identity and every route permission P, with the  *)
(* permission lookup answering, check_permission passes the request to the *)
(* handler if and only if P is in the permission set of the identity's     *)
(* role, and answers PermissionDenied (403) otherwise; the administrator   *)
(* whose set lacks P is denied like anyone else.                           *)
C7_PermissionBySetMembership ==
    [][\A p \in Procs :
         http[p].pc = "check_permission" /\ check_permission(p, "ok")
            => \A u \in http[p].ident :
                  LET P == Route(http[p].path).permission
                  IN  IF P \subseteq role_permissions[u.user.role_id]
                      THEN http'[p].pc = "handler" /\ http'[p].ident = {u}
                      ELSE Answered(p, forbidden("PermissionDenied"))]_vars

\* a request of the administrator was answered PermissionDenied: the set of
\* the admin role lacks the permission of the route
C7_Witness ==
    /\ hresp.res = forbidden("PermissionDenied")
    /\ \E u \in hresp.ident : u.user.role_id = "admin"
    /\ ~(Route(hresp.path).permission \subseteq role_permissions["admin"])

----------------------------------------------------------------------------
(* Regenerate *)

\* task p stores the token a resend-activation built, the store answering
ResendStep(p) ==
    /\ req[p].pc = "store" /\ req[p].kind = "resend"
    /\ \E m \in Outcomes : resend_activation_update(p, "ok", m)

\* the VerifyAccount rows of the user of request r
VerifyRows(toks, r) ==
    {i \in DOMAIN toks : /\ toks[i].user_id = r.uid
                         /\ toks[i].action_type = "verify-account"}

(* C11: served one at a time, a resend-activation request for a verified   *)
(* user is answered AccountActive and changes no row; a resend-activation  *)
(* that reaches the store is for a user whose is_verified is false, and it *)
(* overwrites token and expires_at of that user's VerifyAccount row with   *)
(* the new token and the new expiry: no other column of that row, no other *)
(* row and no user changes.                                                *)
C11_ResendOnlyUnverified ==
    [][\A p \in Procs :
         /\ \A e \in Emails :
               /\ req[p].pc = "idle" /\ resp'.kind = "resend"
               /\ resend_activation(p, e, TRUE, "ok")
               /\ \E u \in get_user_by_email(users, e) : users[u].is_verified
               => /\ resp'.res = bad_request("AccountActive")
                  /\ req'[p].pc = "idle"
                  /\ UNCHANGED <<users, tokens>>
         /\ ResendStep(p)
               => LET r == req[p]
                  IN  /\ ~users[r.uid].is_verified
                      /\ VerifyRows(tokens, r) # {}
                      /\ users' = users
                      /\ DOMAIN tokens' = DOMAIN tokens
                      /\ \A i \in DOMAIN tokens :
                            IF i \in VerifyRows(tokens, r)
                            THEN tokens'[i] =
                                    [tokens[i] EXCEPT !.token = {r.tok},
                                                      !.expires_at = {r.exp}]
                            ELSE tokens'[i] = tokens[i]]_vars

\* a resend-activation has just succeeded some time after the sign-up: the
\* row of the unverified user holds the second token and an expiry counted
\* from the present hour
C11_Witness ==
    /\ resp = [kind |-> "resend", res |-> Success]
    /\ ticks > 0
    /\ \E i \in DOMAIN tokens :
          /\ tokens[i].token = {2}
          /\ tokens[i].expires_at = {now + VerifyTTL}
          /\ ~users[tokens[i].user_id].is_verified

(* C12: after a successful resend-activation the user's VerifyAccount row  *)
(* is Active: it holds the new token and the new expiry and its used_at is *)
(* null, whatever the row held before.                                     *)
C12_ResendMakesActive ==
    [][\A p \in Procs :
         ResendStep(p)
            => \A i \in VerifyRows(tokens', req[p]) :
                  /\ tokens'[i].token = {req[p].tok}
                  /\ tokens'[i].expires_at = {req[p].exp}
                  /\ tokens'[i].used_at = {}]_vars

----------------------------------------------------------------------------
(* The rate limiter's store errors *)

\* the request of task p ends in rate_limit with a 500: no layer after
\* rate_limit and no handler has been entered
FailedClosed(p) ==
    /\ http'[p].pc = "idle"
    /\ hresp'.res.status = 500
    /\ hresp'.ran = <<"rate_limit">>

(* C13: the rate limiter fails closed. When get_conn, INCR or EXPIRE returns
   an error, the request is answered with status 500 and the rest of the
   stack (next.run) is not entered for it. *)
C13_LimiterFailsClosed ==
    [][\A p \in Procs :
         /\ \A path \in Paths, addr \in SocketAddrs, c \in CredentialInputs :
               rate_limit(p, path, addr, c.cookie, c.header, "err")
                  => FailedClosed(p) /\ redis' = redis
         /\ rate_limit_incr(p, "err") => FailedClosed(p) /\ redis' = redis
         /\ rate_limit_expire(p, "err") => FailedClosed(p) /\ redis' = redis]_vars

\* EXPIRE failed after the increment that created the counter
C13_Witness ==
    /\ hresp.res = server_error(format("Failed to expire key: ", RedisText))
    /\ hresp.ran = <<"rate_limit">>
    /\ hresp.count = 1
    /\ Counter(hresp.path).n >= 1

----------------------------------------------------------------------------
(* The authorization gate's failures *)

\* the response of the step was produced without entering the handler
HandlerNotEntered == \A i \in DOMAIN hresp'.ran : hresp'.ran[i] # "handler"

(* C14: the authorization gate fails closed. When the lookup of the
   permissions of the identity's role returns an error, check_permission
   answers ServerError with status 500 and the handler is not invoked,
   whatever permission the route requires and whatever the role holds. *)
C14_GateFailsClosed ==
    [][\A p \in Procs :
         check_permission(p, "err") /\ http[p].ident # {}
            => /\ Answered(p, server_error("ServerError"))
               /\ hresp'.res.status = 500
               /\ HandlerNotEntered]_vars

\* the lookup failed for a role that holds the permission of the route
C14_Witness ==
    /\ hresp.res = server_error("ServerError")
    /\ hresp.path = "/api/post"
    /\ \E a \in hresp.ident :
          Route(hresp.path).permission \subseteq role_permissions[a.user.role_id]

(* C15: with no authenticated identity attached to the request,
   check_permission answers UserNotAuthenticated (401) for every required
   permission, whether or not the store would answer (it is not queried),
   and the handler is not invoked; the answer differs from PermissionDenied. *)
C15_NoIdentityUnauthenticated ==
    [][\A p \in Procs, db \in Outcomes :
         check_permission(p, db) /\ http[p].ident = {}
            => /\ Answered(p, unauthorized("UserNotAuthenticated"))
               /\ hresp'.res # forbidden("PermissionDenied")
               /\ hresp'.res.status # forbidden("PermissionDenied").status
               /\ HandlerNotEntered]_vars

\* a request without identity was answered at the gate of a route
C15_Witness ==
    /\ hresp.res = unauthorized("UserNotAuthenticated")
    /\ hresp.ident = {}
    /\ hresp.path = "/api/post"
    /\ hresp.ran = <<"check_permission">>

----------------------------------------------------------------------------
(* The token codec *)

\* the step is a call of parse_token with the string token and the key
ParseStep(token, secret) == token \in ParseInputs /\ ParseToken(token, secret)

\* the token create_token returned for a subject that is not empty and a
\* positive number of minutes
Issued ==
    {j \in minted.out : minted.user_id # NoSubject /\ minted.expires_in_minutes > 0}

\* issue time + ttl, in seconds
Deadline == minted.at + Minute * minted.expires_in_minutes

(* C16: for every subject that is not empty, every secret and every ttl > 0
   minutes, parse_token of the token create_token returned, with the same
   secret, returns exactly the subject at every time before issue time + ttl
   and fails at every time after issue time + ttl. *)
C16_RoundTrip ==
    [][\A j \in Issued :
         ParseStep(<<j>>, minted.secret)
            => /\ sec < Deadline => decoded'.out = {minted.user_id}
               /\ sec > Deadline => decoded'.out = {}]_vars

(* C17: parse_token rejects a token with a bad signature, a string that has
   not the structure of a token, a token whose exp is in the past and a token
   whose nbf is in the future, and every rejection is the same TokenInvalid
   error. *)
C17_RejectsEach ==
    [][\A token \in ParseInputs, secret \in JwtKeys :
         ParseStep(token, secret)
            => /\ ( \/ Len(token) # 1
                    \/ token[1].kind # "jwt"
                    \/ token[1].key # secret
                    \/ token[1].exp < sec
                    \/ token[1].nbf > sec )
                  => decoded'.out = {}
               /\ decoded'.out = {}
                  => decoded'.err = unauthorized("TokenInvalid")]_vars

(* C18: create_token with an empty subject fails and produces no token, for
   every secret and every ttl. *)
C18_EmptySubjectFails ==
    [][CreateToken /\ minted.user_id = NoSubject => minted'.out = {}]_vars

\* create_token was called with the empty subject, a key and two minutes
C18_Witness ==
    /\ minted.called
    /\ minted.user_id = NoSubject
    /\ minted.secret = jwt_secret
    /\ minted.expires_in_minutes = 2
    /\ minted.out = {}

----------------------------------------------------------------------------
(* Basic authentication *)

\* the header "Basic <base64 of username:password>"
BasicHeader(username, password) ==
    <<Basic, Space, B64(username \o <<":">> \o password)>>

(* C19: with the credentials user/pass configured, auth_basic lets a request
   with the header "Basic <base64 of user:pass>" through to the handler, and
   answers a request whose header carries the right username with any other
   password with 401 WrongCredentials without entering the handler. *)
C19_BasicCredentials ==
    [][\A p \in Procs :
         auth_basic(p)
            => /\ http[p].header = {BasicHeader(auth_basic_username, auth_basic_password)}
                  => /\ http'[p].pc = "handler"
                     /\ hresp' = hresp
               /\ \A w \in OtherPasswords :
                     http[p].header = {BasicHeader(auth_basic_username, w)}
                        => /\ Answered(p, unauthorized("WrongCredentials"))
                           /\ HandlerNotEntered]_vars

\* the request with the configured credentials has passed auth_basic
C19_Witness ==
    \E p \in Procs :
        /\ http[p].pc = "handler"
        /\ http[p].header = {BasicHeader(<<"user">>, <<"pass">>)}
        /\ http[p].ran = <<"rate_limit", "auth_basic">>

----------------------------------------------------------------------------
(* The statuses of the errors *)

\* the status the response res carries is the one named for its message
StatusAsNamed(res) ==
    /\ res.message \in {"TokenNotProvided", "TokenInvalid", "UserNoLongerExist"}
          => res.status = 401
    /\ res.message = "PermissionDenied" => res.status = 403
    /\ res.message = "TooManyRequest" => res.status = 429
    /\ res.message \in {"TokenKeyInvalid", "TokenKeyExpired"} => res.status = 400
    /\ res.message = "ServerError" => res.status = 500

\* a header value that is not blank and is not "Basic <base64 of a text>"
MalformedBasic(h) ==
    /\ ~TrimIsEmpty(h)
    /\ LET parts == split_whitespace(h)
       IN  \/ Len(parts) # 2
           \/ parts[1] # Basic
           \/ base64_decode(parts[2]) = {}
           \/ \A b \in base64_decode(parts[2]) : from_utf8(b) = {}

(* C20: every error outcome maps to its HTTP status: TokenNotProvided,
   TokenInvalid and UserNoLongerExist give 401, PermissionDenied gives 403,
   TooManyRequest gives 429, TokenKeyInvalid, TokenKeyExpired and a malformed
   Basic header give 400, ServerError gives 500. *)
C20_StatusMapping ==
    [][/\ hresp' # hresp => StatusAsNamed(hresp'.res)
       /\ resp' # resp => StatusAsNamed(resp'.res)
       /\ \A p \in Procs :
             auth_basic(p) /\ (\E h \in http[p].header : MalformedBasic(h))
                => http'[p].pc = "idle" /\ hresp'.res.status = 400]_vars

----------------------------------------------------------------------------
(* The windows of the rate limiter *)

RECURSIVE SumTo(_, _)
SumTo(f, a) == IF a < 0 THEN 0 ELSE f[a] + SumTo(f, a - 1)

\* how many requests for key were passed on in the interval of the last
\* rate_limiter_duration seconds, its two ends included
AdmittedInWindow(key) == SumTo(admitted[key], rate_limiter_duration)

(* C21: the limiter is a fixed-window counter. For one (route, client) key
   it can pass on max requests at the end of one window and max more at the
   start of the next, and in any time interval no longer than the window
   duration it passes on at most 2 * max requests. *)
C21_BurstAtMostTwiceMax ==
    \A key \in DOMAIN redis : AdmittedInWindow(key) <= 2 * rate_limiter_max

\* max requests have just been passed on in a new window of the counter,
\* after max requests in the window before, all within the duration
C21_Witness ==
    \E key \in DOMAIN redis :
        /\ redis[key].n = rate_limiter_max
        /\ redis[key].age = 0
        /\ admitted[key][0] = rate_limiter_max
        /\ AdmittedInWindow(key) = 2 * rate_limiter_max

----------------------------------------------------------------------------
(* A counter left without TTL *)

\* the key exists without TTL and no request is between its INCR and its
\* EXPIRE: the EXPIRE of the request that created it did not take effect
Orphaned(r, h, key) ==
    /\ r[key].n >= 1
    /\ r[key].ttl = 0
    /\ \A p \in Procs : ~(h[p].pc = "expire" /\ KeyOf(h[p]) = key)

(* C22: when the EXPIRE after the increment that created a key does not
   take effect, no later request sets a TTL on the key: the key stays
   without TTL, its count only grows, and once the count has reached max
   every request counted on it is denied and none is passed on. *)
C22_OrphanKeyIsPermanent ==
    [][\A key \in DOMAIN redis :
         Orphaned(redis, http, key)
            => /\ Orphaned(redis', http', key)
               /\ redis'[key].n >= redis[key].n
               /\ \A p \in Procs :
                     /\ http[p].pc = "incr" /\ KeyOf(http[p]) = key
                     /\ redis[key].n >= rate_limiter_max
                     /\ http'[p] # http[p]
                     => /\ http'[p].pc = "idle"
                        /\ hresp'.res.status \in {429, 500}
                        /\ redis'[key].n = redis[key].n + 1
                              => hresp'.res = too_many_request("TooManyRequest")
                        /\ admitted' = admitted]_vars

\* a key without TTL has outlived the window and its count has passed max;
\* the last request on it was denied
C22_Witness ==
    \E key \in DOMAIN redis :
        /\ Orphaned(redis, http, key)
        /\ redis[key].age >= rate_limiter_duration
        /\ redis[key].n > rate_limiter_max
        /\ hresp.res = too_many_request("TooManyRequest")
        /\ hresp.count = redis[key].n

----------------------------------------------------------------------------
(* Deleted users *)

\* request r presents a token that verifies and whose subject is the id of
\* a row of users that has been deleted
PresentsTokenOfDeleted(r) ==
    \E s \in CredentialOf(r) :
        LET token == IF StartsWithBearer(s) THEN <<split_whitespace(s)[2]>> ELSE s
        IN  /\ Len(token) = 1
            /\ token[1].kind = "jwt"
            /\ Verifies(token[1])
            /\ token[1].sub.uuid
            /\ token[1].sub.id \in DOMAIN users
            /\ users[token[1].sub.id] = DeletedRow

(* C23: the identity resolver caches nothing. Once a user has been deleted
   from the store, every request that afterwards presents to auth_token that
   user's token, correctly signed and not expired, is answered with
   UserNoLongerExist (401) and does not reach a later stage or the handler. *)
C23_DeletedUserRejected ==
    [][\A p \in Procs :
         /\ http[p].pc = "auth_token" /\ http'[p] # http[p]
         /\ PresentsTokenOfDeleted(http[p])
         => /\ Answered(p, unauthorized("UserNoLongerExist"))
            /\ hresp'.ident = {}
            /\ hresp'.ran = <<"rate_limit", "auth_token">>]_vars

\* the plain user is deleted and, of two requests the rate limiter passed
\* on in this second, the last was answered UserNoLongerExist
C23_Witness ==
    /\ users[2] = DeletedRow
    /\ hresp.res = unauthorized("UserNoLongerExist")
    /\ hresp.ran = <<"rate_limit", "auth_token">>
    /\ admitted[RedisKey("/api/user/self", FallbackIp)][0] >= 2

----------------------------------------------------------------------------
(* The credential of a request *)

\* the string s is blank, and the token auth_token hands to verification
\* from the string s
Blank(s) == \A i \in DOMAIN s : s[i] = Space
Handed(s) == IF StartsWithBearer(s) THEN <<split_whitespace(s)[2]>> ELSE s

(* C24: auth_token takes as credential the cookie "token" when there is
   one, else the Authorization header. Without credential, or with a blank
   one, it answers TokenNotProvided; with a credential that starts with
   "Bearer " and does not split into exactly two parts at whitespace it
   answers TokenInvalid; otherwise the part after the prefix, or the whole
   value when there is no prefix, is the token given to verification: the
   request is answered TokenInvalid when that token does not verify and goes
   on only with the identity of that token's subject. *)
C24_CredentialExtraction ==
    [][\A p \in Procs :
         http[p].pc = "auth_token" /\ http'[p] # http[p]
            => LET r == http[p]
                   credential == IF r.cookie # {} THEN r.cookie ELSE r.header
               IN  IF credential = {} \/ \A s \in credential : Blank(s)
                   THEN Answered(p, unauthorized("TokenNotProvided"))
                   ELSE \A s \in credential :
                          IF StartsWithBearer(s) /\ Len(split_whitespace(s)) # 2
                          THEN Answered(p, unauthorized("TokenInvalid"))
                          ELSE /\ parse_token(Handed(s), jwt_secret) = {}
                                  => Answered(p, unauthorized("TokenInvalid"))
                               /\ http'[p].pc # "idle"
                                  => \E sub \in parse_token(Handed(s), jwt_secret) :
                                        /\ sub.uuid
                                        /\ http'[p].ident = {AuthenticatedUser(sub.id)}]_vars

\* a request with two spaces between Bearer and the token is past auth_token
C24_Witness ==
    \E p \in Procs :
        /\ http[p].pc = "check_permission"
        /\ http[p].header = {<<Bearer, Space, Space, UserJwt>>}
        /\ http[p].ident = {AuthenticatedUser(2)}

----------------------------------------------------------------------------
(* The text of error responses *)

\* the messages of ErrorMessage that carry no argument, and the message of
\* a body that fails validation
PublicMessages ==
    {"EmptyPassword", "InvalidHashFormat", "HashingError", "ServerError",
     "WrongCredentials", "EmailExist", "UserNoLongerExist", "TokenInvalid",
     "TokenNotProvided", "TokenExpired", "TooManyRequest", "TokenKeyExpired",
     "TokenKeyInvalid", "DataNotFound", "PermissionDenied",
     "UserNotAuthenticated", "AccountNotActive", "validation"}

\* res is an error response
IsError(res) == res.status >= 400

(* C25: no error response of the rate limiter, the authentication stages,
   the authorization gate or the action-token handlers carries text of an
   internal cause (store error, counter-store error, base64 or token decode
   error): its message is one of the fixed public error messages. *)
C25_OnlyPublicMessages ==
    /\ IsError(hresp.res) => hresp.res.message \in PublicMessages
    /\ IsError(resp.res) => resp.res.message \in PublicMessages

----------------------------------------------------------------------------
(* Issue *)

\* the row holds a token, is unused, and its expiry has not passed
Active(row) ==
    /\ row.token # {} /\ row.used_at = {}
    /\ \E e \in row.expires_at : ~(now > e)

\* task p enters sign_up or forgot_password and goes on to the store
IssueEntry(p) == req[p].pc = "idle" /\ req'[p].pc = "store"

(* C26: issue always yields an Active row. sign-up creates the user's
   VerifyAccount row with expires_at = now + 24h; forgot-password upserts
   the user's ResetPassword row so that from any prior state (Absent,
   Active, Expired, Consumed) the row ends with the new token, used_at null
   and expires_at = now + 2h, now being the instant the handler computes
   the expiry at; the row is Active when the store answers before that
   expiry. *)
C26_IssueYieldsActive ==
    [][\A p \in Procs :
         /\ IssueEntry(p) /\ req'[p].kind = "sign_up"
               => req'[p].exp = now + VerifyTTL
         /\ IssueEntry(p) /\ req'[p].kind = "forgot"
               => req'[p].exp = now + ResetTTL
         /\ req[p].pc = "store"
            /\ \/ \E m \in Outcomes : sign_up_save(p, "none", m)
               \/ \E m \in Outcomes : forgot_password_upsert(p, "ok", m)
               => LET r == req[p]
                      rows == RowsOf(tokens', IssuedFor(r))
                  IN  /\ Cardinality(rows) = 1
                      /\ \A i \in rows :
                            /\ tokens'[i].token = {r.tok}
                            /\ tokens'[i].used_at = {}
                            /\ tokens'[i].expires_at = {r.exp}
                            /\ ~(now > r.exp) => Active(tokens'[i])
                      /\ r.kind = "sign_up"
                            => rows = {Len(tokens) + 1}]_vars

\* forgot-password has succeeded for the verified account: whatever its
\* ResetPassword row was, it holds the new token, unused, expiring in 2h
C26_Witness ==
    /\ resp = [kind |-> "forgot", res |-> Success]
    /\ Len(tokens) = 2
    /\ tokens[2] = [user_id |-> 1, token |-> {1},
                    action_type |-> "reset-password", used_at |-> {},
                    expires_at |-> {StartAt + ResetTTL}]
    /\ Active(tokens[2])

----------------------------------------------------------------------------
(* Failed store calls *)

\* the credential of request r takes auth_token as far as get_user_by_id:
\* it is not blank, splits as it must, verifies, and its subject is a UUID
LookupReached(r) ==
    \E s \in CredentialOf(r) :
        /\ ~TrimIsEmpty(s)
        /\ ~(StartsWithBearer(s) /\ Len(split_whitespace(s)) # 2)
        /\ \E sub \in parse_token(Handed(s), jwt_secret) :
              Uuid_parse_str(sub) # {}

\* the step ends the request of task p with status 500
EndsWithServerError(p) == http'[p].pc = "idle" /\ hresp'.res.status = 500

\* the step ends the action-token request of task p with status 500
HandlerEndsWithServerError(p) ==
    req'[p].pc = "idle" /\ resp'.res.status = 500

\* a store call of an action-token handler of task p fails in this step
HandlerStoreFails(p) ==
    \/ \E e \in Emails, w \in Passwords : sign_up(p, e, w, TRUE, "err")
    \/ \E t \in TokenInputs : verify_account(p, t, TRUE, "err")
    \/ \E e \in Emails : resend_activation(p, e, TRUE, "err")
    \/ \E e \in Emails : forgot_password(p, e, TRUE, "err")
    \/ \E t \in TokenInputs, w \in NewPasswords :
          reset_password(p, t, w, TRUE, "err")
    \/ \E m \in Outcomes : resend_activation_update(p, "err", m)
    \/ \E m \in Outcomes : forgot_password_upsert(p, "err", m)
    \/ \E f \in SaveUserPoints \ {"none"}, m \in Outcomes :
          \/ sign_up_save(p, f, m)
          \/ verify_account_consume(p, f, m)
          \/ reset_password_consume(p, f, m)

(* C27: in every stage (rate limiter, identity resolver, authorization
   gate, action-token handlers) a failed store call is not retried and
   surfaces at once as a response with status 500: the step of the failed
   call ends the request, which enters no later stage. *)
C27_StoreFailureIsServerError ==
    [][\A p \in Procs :
         /\ \A path \in Paths, addr \in SocketAddrs, c \in CredentialInputs :
               rate_limit(p, path, addr, c.cookie, c.header, "err")
                  => EndsWithServerError(p)
         /\ rate_limit_incr(p, "err") => EndsWithServerError(p)
         /\ rate_limit_expire(p, "err") => EndsWithServerError(p)
         /\ auth_token(p, "err") /\ LookupReached(http[p])
               => EndsWithServerError(p)
         /\ check_permission(p, "err") /\ http[p].ident # {}
               => EndsWithServerError(p)
         /\ HandlerStoreFails(p) => HandlerEndsWithServerError(p)]_vars

----------------------------------------------------------------------------
(* Identity resolution *)

\* the subjects of the tokens that the credential of request r hands to
\* verification and that verify
VerifiedSubjects(r) ==
    UNION {parse_token(Handed(s), jwt_secret) :
             s \in {c \in CredentialOf(r) :
                      /\ ~TrimIsEmpty(c)
                      /\ ~(StartsWithBearer(c) /\ Len(split_whitespace(c)) # 2)}}

(* C28: identity resolution classifies its failures. A verified token whose
   subject does not parse as a UUID is answered TokenInvalid; a subject UUID
   for which the users table returns no user, or for which the lookup
   itself errors, is answered UserNoLongerExist; both with status 401, and
   the lookup is attempted once: the step ends the request. Otherwise the
   request goes on. *)
C28_IdentityFailures ==
    [][\A p \in Procs : \A db \in Outcomes :
         auth_token(p, db)
            => \A sub \in VerifiedSubjects(http[p]) :
                  IF Uuid_parse_str(sub) = {}
                  THEN Answered(p, [status |-> 401, message |-> "TokenInvalid"])
                  ELSE IF db = "err" \/ get_user_by_id(users, sub.id) = {}
                  THEN /\ Answered(p, [status |-> 401,
                                       message |-> "UserNoLongerExist"])
                       /\ hresp'.ran = Append(http[p].ran, "auth_token")
                       /\ users' = users
                  ELSE http'[p].pc # "idle"]_vars

\* a request that the rate limiter admitted was answered UserNoLongerExist
\* by auth_token while no user had been deleted
C28_Witness ==
    /\ users = SeedUsers
    /\ hresp.res = unauthorized("UserNoLongerExist")
    /\ hresp.ran = <<"rate_limit", "auth_token">>
    /\ hresp.ident = {}
    /\ hresp.count = 1

----------------------------------------------------------------------------
(* The split of the Basic credential *)

\* the text t cut at its first ":": username and password, or nothing
\* when t holds no ":"
SplitAtFirstColon(t) ==
    IF \A i \in DOMAIN t : t[i] # ":"
    THEN {}
    ELSE LET k == CHOOSE i \in DOMAIN t :
                     t[i] = ":" /\ \A j \in 1 .. (i - 1) : t[j] # ":"
         IN  {[username |-> SubSeq(t, 1, k - 1),
               password |-> SubSeq(t, k + 1, Len(t))]}

\* the configurations: the password without and with a colon
Envs ==
    {[auth_basic_username |-> auth_basic_username,
      auth_basic_password |-> auth_basic_password], ColonEnv}

(* C29: auth_basic splits the decoded credential at the first ":" into a
   username and a password, the password being everything after the first
   ":", and lets the request through if and only if both equal the
   configured credentials, also when the password holds a ":". *)
C29_SplitAtFirstColon ==
    [][\A p \in Procs : \A env \in Envs :
         auth_basic_env(p, env)
            => \A h \in http[p].header :
                  Len(h) = 3 /\ h[1] = Basic /\ h[2] = Space /\ h[3].kind = "base64"
                     => (http'[p].pc = "handler"
                           <=> \E c \in SplitAtFirstColon(h[3].text) :
                                  /\ c.username = env.auth_basic_username
                                  /\ c.password = env.auth_basic_password)]_vars

----------------------------------------------------------------------------
(* Concurrent requests on one counter key *)

Min(a, b) == IF a <= b THEN a ELSE b

\* how many requests were passed on since the key of the store r was
\* created, as far back as adm keeps them
AdmittedInLifetime(adm, r, key) ==
    SumTo(adm[key], Min(r[key].age, rate_limiter_duration))

\* the reply of INCR that the request of task p got in this step
Observed(p) == IF http'[p].pc = "idle" THEN hresp'.count ELSE http'[p].count

\* the tasks between the INCR and the EXPIRE of a request on key, in h
Expiring(h, key) == {p \in Procs : h[p].pc = "expire" /\ KeyOf(h[p]) = key}

(* C30: for every interleaving of concurrent requests on the same (route,
   client) key, the requests passed on during the lifetime of one counter
   key never exceed max: each INCR replies the next value of the key, a
   request is passed on only with a reply from 1 to max, and no more are
   passed on than the key counts. Exactly one request of a lifetime gets the
   reply 1, the one that created the key, and it alone calls EXPIRE. *)
C30_AtMostMaxPerKeyLifetime ==
    [][/\ \A key \in DOMAIN redis :
            /\ redis'[key].n >= 1
                  => AdmittedInLifetime(admitted', redis', key)
                        <= Min(redis'[key].n, rate_limiter_max)
            /\ Cardinality(Expiring(http', key)) <= 1
            /\ redis'[key].ttl > redis[key].ttl
                  => \E p \in Expiring(http, key) :
                        /\ http[p].count = 1
                        /\ rate_limit_expire(p, "ok")
       /\ \A p \in Procs :
            /\ http[p].pc = "incr" /\ rate_limit_incr(p, "ok")
                  => LET key == KeyOf(http[p])
                     IN  /\ Observed(p) = redis[key].n + 1
                         /\ Observed(p) = redis'[key].n
                         /\ Observed(p) = 1 <=> redis[key] = AbsentKey
                         /\ Observed(p) = 1 <=> http'[p].pc = "expire"
            /\ http[p].pc \in {"incr", "expire"} /\ Allowed(p)
                  => /\ http'[p].count \in 1 .. rate_limiter_max
                     /\ admitted' = Admit(admitted, KeyOf(http[p]))]_vars

\* two requests on one key at once: the first got the reply 1 and has not
\* yet called EXPIRE, the other got 2 and has been passed on
C30_Witness ==
    \E p, q \in Procs :
        /\ p # q /\ KeyOf(http[p]) = KeyOf(http[q])
        /\ http[p].pc = "expire" /\ http[p].count = 1
        /\ http[q].pc = "handler" /\ http[q].count = 2
        /\ redis[KeyOf(http[p])].n = 2
        /\ AdmittedInLifetime(admitted, redis, KeyOf(http[p])) = 1

----------------------------------------------------------------------------
(* The expiry of a counter key *)

\* the keys of the counters
RateLimitKeys == {RedisKey(path, FallbackIp) : path \in Paths}

\* the last second the model's clock reaches
LastSec == Leeway + 1 + MaxSec

(* C31: the expiry of a counter key is set once, by the request that
   created the key, and no later request, passed on or denied, resets or
   extends it: between two seconds a TTL changes only from none to the
   window duration by the EXPIRE of the request that got the reply 1, and
   each second takes one off until the key is gone. Hence, the clock
   running, a key with a TTL is gone when its TTL has run out, whatever
   requests arrive meanwhile, and the request that then creates it anew is
   passed on. *)
C31_ExpirySetOnce ==
    /\ [][/\ \A key \in RateLimitKeys :
               /\ sec' = sec /\ redis'[key].ttl # redis[key].ttl
                     => /\ redis[key].ttl = 0
                        /\ redis'[key].ttl = rate_limiter_duration
                        /\ \E p \in Expiring(http, key) :
                              http[p].count = 1 /\ rate_limit_expire(p, "ok")
               /\ sec' # sec /\ redis[key].ttl > 1
                     => redis'[key].ttl = redis[key].ttl - 1
               /\ sec' # sec /\ redis[key].ttl = 1 => redis'[key] = AbsentKey
          /\ \A p \in Procs :
               /\ http[p].pc = "expire" /\ rate_limit_expire(p, "ok")
               /\ rate_limiter_max >= 1
               => Allowed(p)]_vars
    /\ \A key \in RateLimitKeys : \A t \in 1 .. rate_limiter_duration :
          (redis[key].ttl = t /\ sec + t <= LastSec)
             ~> (redis[key] = AbsentKey)

\* a request was denied on the key of /api/ping, and the key is gone: the
\* window that its creator's EXPIRE began has ended
C31_Witness ==
    /\ hresp.res = too_many_request("TooManyRequest")
    /\ hresp.path = "/api/ping"
    /\ hresp.count > rate_limiter_max
    /\ redis[RedisKey("/api/ping", FallbackIp)] = AbsentKey
    /\ \A p \in Procs : http[p].pc = "idle"

----------------------------------------------------------------------------
(* The counters of distinct routes and clients *)

\* the requests in flight in h that tasks p and q serve are on one route,
\* for two clients
TwoClientsOneRoute(h, p, q) ==
    /\ Peer[p] # Peer[q]
    /\ h[p].pc # "idle" /\ h[q].pc # "idle"
    /\ h[p].path = h[q].path

(* C32: counters are independent per (route path, client IP). A request for
   one pair changes only the counter of its pair, and the requests of two
   distinct clients on the same route count on two distinct counters, so
   that each client has its own quota of max per window. *)
C32_CountersPerClient ==
    [][/\ \A key \in DOMAIN redis :
            sec' = sec /\ redis'[key] # redis[key]
               => \E p \in Procs : KeyOf(http[p]) = key /\ http'[p] # http[p]
       /\ \A p, q \in Procs :
            TwoClientsOneRoute(http', p, q)
               => KeyOf(http'[p]) # KeyOf(http'[q])]_vars

(* C33: no request carries a socket-address extension, rate_limit
   substitutes one fixed client identifier, and all clients share a single
   counter per route path: the requests of two clients on one route count
   on one key, each INCR replies one more than the last whoever sent the
   request before, and a client is denied on a count that the requests of
   the other client raised. *)
C33_ClientsShareCounter ==
    [][/\ \A p \in Procs :
            /\ http'[p].pc # "idle"
                  => /\ http'[p].addr = {}
                     /\ KeyOf(http'[p]) =
                           <<"rate_limit", http'[p].path, "http://localhost:4000">>
            /\ http[p].pc = "incr" /\ rate_limit_incr(p, "ok")
                  => /\ Observed(p) = redis[KeyOf(http[p])].n + 1
                     /\ Answered(p, too_many_request("TooManyRequest"))
                           <=> redis[KeyOf(http[p])].n >= rate_limiter_max
       /\ \A p, q \in Procs :
            TwoClientsOneRoute(http', p, q)
               => KeyOf(http'[p]) = KeyOf(http'[q])]_vars

\* the client of r1 holds the last place of the quota of /api/ping, its
\* request still in the handler, and the request sent next, of the other
\* client, was denied
C33_Witness ==
    /\ http["r1"].pc = "handler" /\ http["r1"].path = "/api/ping"
    /\ http["r1"].count = rate_limiter_max
    /\ http["r2"].pc = "idle"
    /\ hresp.res = too_many_request("TooManyRequest")
    /\ hresp.path = "/api/ping"
    /\ hresp.count = rate_limiter_max + 1
    /\ Peer["r1"] # Peer["r2"]

----------------------------------------------------------------------------
(* The action a token authorizes *)

\* the action_type of the rows that the handler of a request of kind k is
\* for
ActionOf(k) == IF k = "verify" THEN "verify-account" ELSE "reset-password"

(* C34: an action token authorizes only the transition of its own
   action_type. verify-account consumes a row, and verifies its user, only
   if the row's action_type is VerifyAccount; reset-password consumes a row,
   and changes its user's password, only if the row's action_type is
   ResetPassword. *)
C34_OwnActionOnly ==
    [][\A p \in Procs :
         ConsumeStep(p) /\ (tokens' # tokens \/ users' # users)
            => /\ req[p].rid \in DOMAIN tokens
               /\ tokens[req[p].rid].action_type = ActionOf(req[p].kind)]_vars

----------------------------------------------------------------------------
(* Verification tokens of verified accounts *)

(* C35: in every reachable state, under any interleaving of sign-up,
   verify-account and resend-activation requests, a user whose is_verified
   is true has no VerifyAccount row with a non-null token. *)
C35_NoLiveTokenForVerified ==
    \A i \in DOMAIN tokens :
        /\ tokens[i].action_type = "verify-account"
        /\ tokens[i].user_id \in DOMAIN users
        /\ users[tokens[i].user_id].is_verified
        => tokens[i].token = {}

----------------------------------------------------------------------------
(* The rows of a sign-up *)

\* the VerifyAccount rows of user u in toks
VerifyRowsOf(toks, u) ==
    RowsOf(toks, [user_id |-> u, action_type |-> "verify-account"])

(* C36: save_user creates the user row and that user's VerifyAccount row in
   one transaction: when a step fails (either INSERT, the role lookup, the
   commit) neither row is persisted, and when none fails both are. In every
   reachable state each user has exactly one VerifyAccount row, so that the
   UPDATE of resend-activation, the store answering, finds a row. *)
C36_SignUpAtomic ==
    [][/\ \A p \in Procs :
            /\ req[p].pc = "store" /\ req[p].kind = "sign_up" /\ req'[p].pc = "idle"
                  => \/ /\ users' = users /\ tokens' = tokens
                        /\ resp'.res.status = 500
                     \/ /\ Len(users') = Len(users) + 1
                        /\ Len(tokens') = Len(tokens) + 1
                        /\ SubSeq(users', 1, Len(users)) = users
                        /\ SubSeq(tokens', 1, Len(tokens)) = tokens
                        /\ users'[Len(users')].email = req[p].email
                        /\ VerifyRowsOf(tokens', Len(users')) = {Len(tokens')}
            /\ \A f \in SaveUserPoints \ {"none"}, m \in Outcomes :
                  sign_up_save(p, f, m) => users' = users /\ tokens' = tokens
            /\ \A m \in Outcomes :
                  resend_activation_update(p, "ok", m)
                     => /\ VerifyRowsOf(tokens, req[p].uid) # {}
                        /\ resp'.res.status # 500 \/ m = "err"
       /\ \A u \in DOMAIN users' :
            Cardinality(VerifyRowsOf(tokens', u)) = 1]_vars

\* two sign-ups for one email were in flight at once: one user row and one
\* VerifyAccount row exist, and the last answer is the failed save_user
C36_Witness ==
    /\ Len(users) = 1
    /\ Len(tokens) = 1
    /\ VerifyRowsOf(tokens, 1) = {1}
    /\ resp = [kind |-> "sign_up", res |-> server_error(DriverText)]
    /\ nextTok = 3

----------------------------------------------------------------------------
(* The tables after an error *)

\* task p answers its action-token request in this step
HandlerAnswers(p) == req[p].pc = "store" /\ req'[p].pc = "idle"

(* C37: whenever sign-up, verify-account, resend-activation, forgot-password
   or reset-password answers with an error status, the user rows and the
   action-token rows are as they were before the request: no failure path
   (a token that is invalid or expired, a store error, a failure after the
   store call such as the delivery of the mail or the mapping of the
   response) leaves a mutation behind. *)
C37_ErrorLeavesNoMutation ==
    [][((\E p \in Procs : HandlerAnswers(p)) \/ resp' # resp)
       /\ IsError(resp'.res)
          => users' = users /\ tokens' = tokens]_vars

----------------------------------------------------------------------------
(* The tokens of sign-in *)

\* the response carries a bearer token, a SET_COOKIE header
CarriesToken(res) == "token" \in DOMAIN res
SetsCookie(res) == "set_cookie" \in DOMAIN res

\* task p is in sign_in with the token made, before the response
SignInPending(r) == r.pc = "store" /\ r.kind = "sign_in"

\* the user whose id the token names exists, was verified when the step
\* was taken, and the token is one of the server's key for that id
NamesVerified(token, us) ==
    \E u \in DOMAIN us :
       /\ us[u].is_verified
       /\ token.sub = Subject(TRUE, u)
       /\ token.kind = "jwt" /\ token.key = jwt_secret

(* C38: sign-in makes a token, and answers with it in the body and in the
   `token` cookie, only for a request whose email is the one of a user
   that exists, whose is_verified is true and whose password is the one
   given; every other sign-in answers with an error that carries neither a
   token nor a cookie, and no other handler issues one. So the subject of
   every token made or sent is the id of a user verified at that time. *)
C38_TokenOnlyForVerified ==
    [][/\ \A p \in Procs, e \in Emails, w \in SignInPasswords,
             v \in BOOLEAN, c \in Outcomes, db \in Outcomes :
            sign_in(p, e, w, v, c, db) =>
              IF SignInPending(req'[p])
              THEN /\ v
                   /\ \E u \in get_user_by_email(users, e) :
                         /\ users[u].is_verified
                         /\ users[u].password = hash(w)
                         /\ req'[p].uid = u
                         /\ \E t \in minted'.out :
                               /\ minted'.out = {t}
                               /\ t.sub = Subject(TRUE, u)
                               /\ NamesVerified(t, users)
                   /\ resp' = resp
              ELSE /\ IsError(resp'.res)
                   /\ ~CarriesToken(resp'.res) /\ ~SetsCookie(resp'.res)
                   /\ minted' = minted
       /\ \A p \in Procs :
            SignInPending(req[p]) /\ Idle(p)' =>
              \/ /\ IsError(resp'.res)
                 /\ ~CarriesToken(resp'.res) /\ ~SetsCookie(resp'.res)
              \/ /\ resp'.res.status = 200
                 /\ CarriesToken(resp'.res) /\ SetsCookie(resp'.res)
                 /\ resp'.res.token \in minted.out
                 /\ resp'.res.token.sub = Subject(TRUE, req[p].uid)
                 /\ NamesVerified(resp'.res.token, users)
                 /\ resp'.res.set_cookie.name = "token"
                 /\ resp'.res.set_cookie.value = resp'.res.token
       /\ (\A p \in Procs : ~SignInPending(req[p]) /\ ~SignInPending(req'[p]))
             /\ resp' # resp
            => ~CarriesToken(resp'.res) /\ ~SetsCookie(resp'.res)
       /\ (\A p \in Procs : ~SignInPending(req'[p])) => minted' = minted
      ]_vars

\* a sign-in was answered with a token for the verified user 1, and the
\* cookie holds the same token
C38_Witness ==
    /\ resp.kind = "sign_in"
    /\ CarriesToken(resp.res)
    /\ resp.res.token.sub = Subject(TRUE, 1)
    /\ resp.res.set_cookie.value = resp.res.token
    /\ users[1].is_verified

\* a sign-in for an account that is not verified was turned down
C38_WitnessNotActive ==
    /\ resp = [kind |-> "sign_in", res |-> bad_request("AccountNotActive")]
    /\ Len(users) = 1 /\ ~users[1].is_verified

----------------------------------------------------------------------------
(* The cookie before the header *)

\* the identity of the token in the credential s, when it verifies
IdentityOf(s) ==
    {AuthenticatedUser(sub.id) : sub \in parse_token(Handed(s), jwt_secret)}

(* C39: when a request has a `token` cookie, auth_token decides from the
   value of the cookie alone, whatever the Authorization header holds: an
   empty or blank cookie is answered TokenNotProvided and a cookie whose
   token does not verify is answered TokenInvalid, although the header
   carries a good bearer token, and a request that goes on does so with
   the identity of the cookie's token. The identity of the header's token
   (the admin's, which no cookie of SpecCookie holds) is taken only when
   there is no cookie. *)
C39_CookieWithoutFallback ==
    [][\A p \in Procs :
         http[p].pc = "auth_token" /\ http'[p] # http[p]
            => LET r == http[p]
               IN  /\ \A s \in r.cookie :
                        /\ Blank(s) => Answered(p, unauthorized("TokenNotProvided"))
                        /\ ~Blank(s) /\ IdentityOf(s) = {}
                              => Answered(p, unauthorized("TokenInvalid"))
                        /\ http'[p].pc # "idle" => http'[p].ident = IdentityOf(s)
                   /\ r.cookie = {}
                        => \A h \in r.header :
                              http'[p].pc # "idle" => http'[p].ident = IdentityOf(h)
                   /\ http'[p].pc # "idle" /\ http'[p].ident = IdentityOf(<<AdminJwt>>)
                        => r.cookie = {}]_vars

\* a request with a good Authorization header was turned down with
\* TokenNotProvided by auth_token: its cookie was empty or blank
C39_Witness ==
    /\ hresp.res = unauthorized("TokenNotProvided")
    /\ hresp.ran = <<"rate_limit", "auth_token">>
    /\ hresp.path = "/api/user/self"

\* a request with a good Authorization header was turned down with
\* TokenInvalid by auth_token: the token of its cookie did not verify
C39_WitnessInvalid ==
    /\ hresp.res = unauthorized("TokenInvalid")
    /\ hresp.ran = <<"rate_limit", "auth_token">>
    /\ hresp.path = "/api/user/self"

====
